---- MODULE Spec2Model ----
(***************************************************************************)
(* package_validator: the dependency resolution engine.                    *)
(*                                                                         *)
(* Strings and paths are sequences of one-character strings, so that       *)
(* starts_with, find, replace, join, parent, file_name and clean are       *)
(* computed on the text as the Rust code computes them.  An Option<T> is   *)
(* a sequence of length at most one: None is << >>, Some(v) is <<v>>.      *)
(***************************************************************************)
EXTENDS Integers, Sequences, FiniteSets, TLC

VARIABLES
    files,                \* Package.files: path -> PackageFile
    system_dependencies,  \* SystemDependencies.dependencies: set of names
    pc,                   \* position inside main / the function under study
    symlinks,             \* SymlinkResolver.symlinks: symlink path -> resolution
    dependencies,         \* Report.dependencies: ELF path -> (name -> result)
    totals,               \* Report.totals
    errors,               \* Report.errors: sequence of ReportError records
    report_file,          \* the JSON file at args.report
    stderr,               \* the lines validate_report printed
    exit,                 \* the Result main returned
    previous,             \* the JSON file an earlier run left behind
    dynamic,              \* the dynamic section of the file given to Elf::from_path
    from_path_result,     \* the Result returned by Elf::from_path
    elf_origin,           \* the directory of the ELF whose paths are normalized
    normalized_paths,     \* the Vec returned by Elf::normalize_paths
    archive,              \* the package file given to Package::new
    procs,                \* the extraction subprocesses: name -> state
    package_result,       \* the PackageResult returned by Package::new
    content,              \* the text of the system dependencies file
    stdout,               \* the rows of the table of missing dependencies
    sum,                  \* three Totals values and the sums formed of them
    calc,                 \* Totals::calculate in progress: pieces, DashSets
    call                  \* the call of resolve_single_symlink in progress

reportVars == <<symlinks, dependencies, totals, errors>>
mainVars == <<report_file, stderr, exit, previous>>
elfVars == <<dynamic, from_path_result, elf_origin, normalized_paths>>
extractVars == <<archive, procs, package_result>>

stepVars == <<sum, calc, call>>

vars == <<files, system_dependencies, pc, reportVars, mainVars, elfVars,
          extractVars, content, stdout, stepVars>>

----------------------------------------------------------------------------
(* Bounds of the model. *)

\* Largest number of entries in a package whose entries are drawn freely.
MaxFiles == 2

\* Largest number of pieces a DT_RPATH / DT_RUNPATH string is made of.
MaxPieces == 2

\* Largest number of characters in a system dependencies file.
MaxContent == 4

----------------------------------------------------------------------------
(* Text: str and Path primitives of the Rust standard library. *)

None == << >>
Some(v) == <<v>>

SLASH == <<"/">>
ORIGIN == <<"$", "O", "R", "I", "G", "I", "N">>
ORIGIN_BRACES == <<"$", "{", "O", "R", "I", "G", "I", "N", "}">>

\* p occurs in s at the 1-based position i.
MatchAt(s, p, i) ==
    /\ i + Len(p) - 1 <= Len(s)
    /\ SubSeq(s, i, i + Len(p) - 1) = p

starts_with(s, p) == MatchAt(s, p, 1)

\* The first position at or after i where p occurs in s, 0 when there is none.
RECURSIVE first_match(_, _, _)
first_match(s, p, i) ==
    IF i + Len(p) - 1 > Len(s) THEN 0
    ELSE IF SubSeq(s, i, i + Len(p) - 1) = p THEN i
    ELSE first_match(s, p, i + 1)

\* str::find: the byte offset (0-based) of the first occurrence, or None.
find(s, p) ==
    LET at == first_match(s, p, 1) IN
    IF at = 0 THEN None ELSE Some(at - 1)

\* str::contains
str_contains(s, p) == find(s, p) # None

\* Option::or_else
or_else(a, b) == IF a # None THEN a ELSE b

\* str::replace: every non-overlapping occurrence, left to right.
RECURSIVE replace(_, _, _)
replace(s, from, to) ==
    IF s = << >> THEN << >>
    ELSE IF MatchAt(s, from, 1)
         THEN to \o replace(SubSeq(s, Len(from) + 1, Len(s)), from, to)
         ELSE <<Head(s)>> \o replace(Tail(s), from, to)

\* str::split(sep): the pieces between separators, empty pieces included.
RECURSIVE split(_, _)
split(s, sep) ==
    LET pos == find(s, sep) IN
    IF pos = None THEN <<s>>
    ELSE <<SubSeq(s, 1, pos[1])>>
         \o split(SubSeq(s, pos[1] + Len(sep) + 1, Len(s)), sep)

IsNormal(c) == c # << >> /\ c # <<".">>

\* Path::components of an absolute path: repeated separators and "." are skipped.
components(path) == SelectSeq(split(path, SLASH), IsNormal)

\* An absolute path from its components.
RECURSIVE from_components(_)
from_components(cs) ==
    IF cs = << >> THEN << >>
    ELSE SLASH \o Head(cs) \o from_components(Tail(cs))

rooted(cs) == IF cs = << >> THEN SLASH ELSE from_components(cs)

\* path_clean::clean of an absolute path: "." dropped, ".." removes the
\* component before it, ".." at the root is dropped, no trailing separator.
RECURSIVE clean_stack(_, _)
clean_stack(stack, cs) ==
    IF cs = << >> THEN stack
    ELSE IF Head(cs) = <<".", ".">>
         THEN clean_stack(IF stack = << >> THEN << >>
                          ELSE SubSeq(stack, 1, Len(stack) - 1), Tail(cs))
         ELSE clean_stack(Append(stack, Head(cs)), Tail(cs))

clean(path) == rooted(clean_stack(<< >>, components(path)))

\* Path::parent of an absolute path: None for the root.
parent(path) ==
    LET cs == components(path) IN
    IF cs = << >> THEN None ELSE Some(rooted(SubSeq(cs, 1, Len(cs) - 1)))

\* Path::file_name: the last component, None for the root or a final "..".
file_name(path) ==
    LET cs == components(path) IN
    IF cs = << >> \/ cs[Len(cs)] = <<".", ".">> THEN None ELSE Some(cs[Len(cs)])

\* Path::join: an absolute second path replaces the first.
join(base, p) ==
    IF starts_with(p, SLASH) THEN p
    ELSE IF base # << >> /\ base[Len(base)] = "/" THEN base \o p
    ELSE base \o SLASH \o p

----------------------------------------------------------------------------
(* package/elf.rs: the ELF record, RPATH/RUNPATH validation, normalization. *)

\* struct Elf
Elf(kind, deps, rp, runp) ==
    [kind |-> kind, dependencies |-> deps, rpath |-> rp, runpath |-> runp]

\* Elf::invalid_path: TRUE when the RPATH/RUNPATH entry is rejected.
invalid_path(path) ==
    IF starts_with(path, SLASH) THEN FALSE
    ELSE LET origin_pos == or_else(find(path, ORIGIN), find(path, ORIGIN_BRACES)) IN
         IF origin_pos # None
         THEN (IF origin_pos[1] # 0 THEN TRUE ELSE FALSE)
         ELSE TRUE

\* format!("{prefix}: {path} is invalid")
InvalidMessage(prefix, path) == [prefix |-> prefix, path |-> path]

\* Elf::collect_invalid_paths: one message per invalid entry, in list order.
RECURSIVE collect_invalid_paths(_, _)
collect_invalid_paths(paths, prefix) ==
    IF paths = << >> THEN << >>
    ELSE (IF invalid_path(Head(paths))
          THEN <<InvalidMessage(prefix, Head(paths))>> ELSE << >>)
         \o collect_invalid_paths(Tail(paths), prefix)

\* Mutant of validate: rpath is validated only when runpath is empty.
validate_searched_list_only(rp, runp) ==
    IF runp # << >> THEN collect_invalid_paths(runp, "RUNPATH")
    ELSE IF rp # << >> THEN collect_invalid_paths(rp, "RPATH")
    ELSE << >>

\* Elf::validate: Ok(()) is << >>, Err(invalid_paths) is the non-empty list.
validate(rp, runp) ==
    (IF runp # << >> THEN collect_invalid_paths(runp, "RUNPATH") ELSE << >>)
    \o (IF rp # << >> THEN collect_invalid_paths(rp, "RPATH") ELSE << >>)

\* Elf::normalize_path: Some(absolute cleaned path) or None.
normalize_path(origin, path) ==
    LET resolved ==
            IF str_contains(path, ORIGIN_BRACES)
            THEN replace(path, ORIGIN_BRACES, origin)
            ELSE IF str_contains(path, ORIGIN)
                 THEN replace(path, ORIGIN, origin)
                 ELSE path
    IN IF starts_with(resolved, SLASH) THEN Some(clean(resolved)) ELSE None

\* iter().filter_map(normalize_path).collect()
RECURSIVE filter_map_normalize(_, _)
filter_map_normalize(origin, paths) ==
    IF paths = << >> THEN << >>
    ELSE normalize_path(origin, Head(paths))
         \o filter_map_normalize(origin, Tail(paths))

\* Mutant of normalize_paths: rpath is preferred to runpath.
normalize_paths_rpath_first(e, origin) ==
    IF e.rpath # << >> THEN filter_map_normalize(origin, e.rpath)
    ELSE IF e.runpath # << >> THEN filter_map_normalize(origin, e.runpath)
    ELSE << >>

\* Elf::normalize_paths
normalize_paths(e, origin) ==
    IF e.runpath # << >> THEN filter_map_normalize(origin, e.runpath)
    ELSE IF e.rpath # << >> THEN filter_map_normalize(origin, e.rpath)
    ELSE << >>

\* The split(':') of Elf::parse with the empty pieces filtered out.
IsNonEmpty(piece) == piece # << >>
parse_paths(dyn_string) ==
    IF dyn_string = None THEN << >>
    ELSE SelectSeq(split(dyn_string[1], <<":">>), IsNonEmpty)

\* Elf::parse of a file with the dynamic section dyn.
parse(dyn) ==
    Elf("SharedObject", dyn.needed, parse_paths(dyn.rpath), parse_paths(dyn.runpath))

\* Result<Elf, ElfError> of Elf::from_path
Ok(e) == [tag |-> "Ok", elf |-> e, paths |-> << >>]
InvalidPaths(paths) ==
    [tag |-> "InvalidPaths", elf |-> Elf("-", << >>, << >>, << >>), paths |-> paths]

\* Elf::from_path
from_path(dyn) ==
    LET e == parse(dyn)
        invalid_paths == validate(e.rpath, e.runpath)
    IN IF invalid_paths = << >> THEN Ok(e) ELSE InvalidPaths(invalid_paths)

----------------------------------------------------------------------------
(* package/mod.rs, package/files.rs: the package model. *)

NoElf == Elf("-", << >>, << >>, << >>)

\* enum PackageFile
File == [type |-> "File", target |-> << >>, elf |-> NoElf]
Symlink(target) == [type |-> "Symlink", target |-> target, elf |-> NoElf]
ElfFile(e) == [type |-> "Elf", target |-> << >>, elf |-> e]

\* Package::symlinks: symlink path -> target
package_symlinks(fs) ==
    [p \in {q \in DOMAIN fs : fs[q].type = "Symlink"} |-> fs[p].target]

\* Package::elfs: ELF path -> Elf
package_elfs(fs) ==
    [p \in {q \in DOMAIN fs : fs[q].type = "Elf"} |-> fs[p].elf]

----------------------------------------------------------------------------
(* package/elf.rs: reading a file of the extracted tree. *)

\* The extensions of files that are never opened.
INVALID_EXTENSIONS ==
    {
      <<"t", "x", "t">>, <<"m", "d">>, <<"j", "s", "o", "n">>,
      <<"y", "a", "m", "l">>, <<"y", "m", "l">>, <<"c", "o", "n", "f">>,
      <<"c", "f", "g">>, <<"i", "n", "i">>, <<"t", "o", "m", "l">>,
      <<"x", "m", "l">>, <<"h", "t", "m", "l">>, <<"c", "s", "s">>,
      <<"j", "s">>, <<"p", "y">>, <<"s", "h">>, <<"b", "a", "s", "h">>,
      <<"z", "s", "h">>, <<"f", "i", "s", "h">>, <<"c", "s", "h">>,
      <<"k", "s", "h">>, <<"p", "l">>, <<"r", "b">>, <<"p", "h", "p">>,
      <<"l", "u", "a">>, <<"t", "c", "l">>, <<"a", "w", "k">>,
      <<"s", "e", "d">>, <<"p", "e", "r", "l">>, <<"p", "m">>,
      <<"p", "o", "d">>, <<"g", "z">>, <<"b", "z", "2">>, <<"x", "z">>,
      <<"z", "s", "t">>, <<"z", "i", "p">>, <<"t", "a", "r">>,
      <<"r", "p", "m">>, <<"d", "e", "b">>, <<"d", "p", "k", "g">>,
      <<"p", "n", "g">>, <<"j", "p", "g">>, <<"j", "p", "e", "g">>,
      <<"g", "i", "f">>, <<"s", "v", "g">>, <<"i", "c", "o">>,
      <<"b", "m", "p">>, <<"w", "e", "b", "p">>, <<"t", "i", "f", "f">>,
      <<"p", "d", "f">>, <<"p", "s">>, <<"e", "p", "s">>, <<"d", "v", "i">>,
      <<"t", "e", "x">>, <<"r", "t", "f">>, <<"o", "d", "t">>,
      <<"d", "o", "c">>, <<"d", "o", "c", "x">>, <<"m", "p", "3">>,
      <<"m", "p", "4">>, <<"a", "v", "i">>, <<"m", "k", "v">>,
      <<"m", "o", "v">>, <<"w", "a", "v">>, <<"f", "l", "a", "c">>,
      <<"o", "g", "g">>, <<"m", "4", "a">>, <<"d", "b">>,
      <<"s", "q", "l", "i", "t", "e">>,
      <<"s", "q", "l", "i", "t", "e", "3">>, <<"d", "b", "3">> }

\* u8::to_ascii_lowercase on the upper-case letters of the model's texts.
to_ascii_lowercase(c) ==
    CASE c = "G" -> "g" [] c = "I" -> "i" [] c = "N" -> "n" [] c = "O" -> "o"
      [] c = "P" -> "p" [] c = "R" -> "r" [] c = "Y" -> "y" [] OTHER -> c

str_to_ascii_lowercase(str) == [i \in DOMAIN str |-> to_ascii_lowercase(str[i])]

\* Path::extension: the text after the last '.' of the file name, a leading
\* '.' not counting.
extension(path) ==
    LET name == file_name(path) IN
    IF name = None THEN None
    ELSE LET dots == {i \in 2..Len(name[1]) : name[1][i] = "."} IN
         IF dots = {} THEN None
         ELSE LET last == CHOOSE i \in dots : \A j \in dots : j <= i
              IN Some(SubSeq(name[1], last + 1, Len(name[1])))

\* Elf::is_invalid_extension
is_invalid_extension(path) ==
    LET ext == extension(path) IN
    ext # None /\ str_to_ascii_lowercase(ext[1]) \in INVALID_EXTENSIONS

\* What Elf::read and goblin see of a file: whether fs::metadata and
\* File::open succeed, the length, whether the first four bytes are the ELF
\* magic, which read fails if any, whether goblin parses it, its e_type and
\* its dynamic section.
Image(metadata, len, open, magic, failing_read, parses, e_type, dyn) ==
    [metadata |-> metadata, len |-> len, open |-> open, magic |-> magic,
     failing_read |-> failing_read, parses |-> parses, e_type |-> e_type,
     dynamic |-> dyn]

ElfError(tag) == [tag |-> tag, elf |-> Elf("-", << >>, << >>, << >>), paths |-> << >>]

\* Elf::read: "Ok" for the bytes, or the error.
read(image) ==
    IF ~image.metadata THEN "OpenFailed"
    ELSE IF image.len < 64 THEN "FileTooSmall"
    ELSE IF ~image.open THEN "OpenFailed"
    ELSE IF image.failing_read = "magic" THEN "ReadFailed"
    ELSE IF ~image.magic THEN "NotElfFile"
    ELSE IF image.failing_read = "rest" THEN "ReadFailed"
    ELSE "Ok"

\* The match on elf.header.e_type of Elf::parse; None stands for `_`.
header_kind(e_type) ==
    CASE e_type = "ET_NONE" -> Some("None")
      [] e_type = "ET_REL" -> Some("Relocatable")
      [] e_type = "ET_EXEC" -> Some("Executable")
      [] e_type = "ET_DYN" -> Some("SharedObject")
      [] e_type = "ET_CORE" -> Some("Core")
      [] OTHER -> None

\* Elf::from_path on a file of the extracted tree.
elf_from_path(image) ==
    IF read(image) # "Ok" THEN ElfError(read(image))
    ELSE IF ~image.parses THEN ElfError("ParseFailed")
    ELSE IF header_kind(image.e_type) = None THEN ElfError("UnknownElfType")
    ELSE LET e == [parse(image.dynamic) EXCEPT !.kind = header_kind(image.e_type)[1]]
             invalid_paths == validate(e.rpath, e.runpath)
         IN IF invalid_paths = << >> THEN Ok(e) ELSE InvalidPaths(invalid_paths)

----------------------------------------------------------------------------
(* package/files.rs, package/extractor.rs: from the extracted tree to the map. *)

NoImage == Image(FALSE, 0, FALSE, FALSE, "none", FALSE, "", [needed |-> << >>, rpath |-> None, runpath |-> None])

\* The entries WalkDir yields: directories, symlinks with the text of their
\* link, regular files.
DirEntry == [type |-> "dir", link |-> << >>, image |-> NoImage]
LinkEntry(link) == [type |-> "symlink", link |-> link, image |-> NoImage]
FileEntry(image) == [type |-> "file", link |-> << >>, image |-> image]

\* ExtractedFile::package_path: the path below the extraction directory,
\* made absolute.
package_path(extracted_path) == join(SLASH, extracted_path)

\* Result<PackageFile, PackageError> / PackageResult<PackageFiles>
PackageOk(value) == [tag |-> "Ok", error |-> "", source |-> "", value |-> value]
PackageError(error, source) ==
    [tag |-> "Err", error |-> error, source |-> source, value |-> << >>]
NoPackage == [tag |-> "None", error |-> "", source |-> "", value |-> << >>]

\* Mutant of package_file_new: every ELF Reader error makes a regular file.
package_file_new_swallows_errors(extracted_path, entry) ==
    IF entry.type = "symlink"
    THEN PackageOk(Symlink(clean(join(or_else(parent(package_path(extracted_path)),
                                              Some(SLASH))[1],
                                      entry.link))))
    ELSE IF ~is_invalid_extension(extracted_path)
    THEN LET elf == elf_from_path(entry.image) IN
         IF elf.tag = "Ok" THEN PackageOk(ElfFile(elf.elf)) ELSE PackageOk(File)
    ELSE PackageOk(File)

\* PackageFile::new
package_file_new(extracted_path, entry) ==
    IF entry.type = "symlink"
    THEN LET target == entry.link
             resolved_target ==
                 IF starts_with(target, SLASH) THEN target
                 ELSE join(or_else(parent(package_path(extracted_path)),
                                   Some(SLASH))[1],
                           target)
         IN PackageOk(Symlink(clean(resolved_target)))
    ELSE IF ~is_invalid_extension(extracted_path)
    THEN LET elf == elf_from_path(entry.image) IN
         CASE elf.tag = "Ok" -> PackageOk(ElfFile(elf.elf))
           [] elf.tag \in {"NotElfFile", "FileTooSmall"} -> PackageOk(File)
           [] OTHER -> PackageError("ElfError", elf.tag)
    ELSE PackageOk(File)

\* The for loop of PackageExtractor::process over the entries still to walk.
RECURSIVE process_walk(_, _, _)
process_walk(collected, tree, walk) ==
    IF walk = << >> THEN PackageOk(collected)
    ELSE LET extracted_path == Head(walk)
             entry == tree[extracted_path]
         IN IF entry.type = "dir"
            THEN process_walk(collected, tree, Tail(walk))
            ELSE LET file == package_file_new(extracted_path, entry) IN
                 IF file.tag = "Err" THEN file
                 ELSE process_walk((package_path(extracted_path) :> file.value)
                                     @@ collected,
                                   tree, Tail(walk))

\* PackageExtractor::process: walk reads the directory in the order `walk`;
\* walk_error is the number of entries WalkDir yields before it fails, None
\* when it does not fail.
process(tree, walk, walk_error) ==
    LET walked == IF walk_error = None THEN walk
                  ELSE SubSeq(walk, 1, walk_error[1])
        collected == process_walk(<< >>, tree, walked)
    IN IF collected.tag = "Err" THEN collected
       ELSE IF walk_error # None THEN PackageError("WalkDirFailed", "")
       ELSE IF DOMAIN collected.value = {}
       THEN PackageError("ExtractionFailed",
                         "Extraction completed but no files were found")
       ELSE collected

----------------------------------------------------------------------------
(* package/extractor.rs, deb.rs, rpm.rs: the extraction subprocesses. *)

\* A child process: running or terminated, its wait status once terminated
\* ("0", "1" for a non-zero code, "signal"), and whether it has been waited for.
Running == [state |-> "running", status |-> "none", reaped |-> FALSE]
Terminated(status) == [state |-> "terminated", status |-> status, reaped |-> FALSE]
Reaped(status) == [state |-> "terminated", status |-> status, reaped |-> TRUE]

\* Command::spawn
spawn(ps, command) == (command :> Running) @@ ps

\* child.kill(); child.wait()
kill_and_wait(ps, child) ==
    [ps EXCEPT ![child] =
        IF @.state = "running" THEN Reaped("signal") ELSE Reaped(@.status)]

\* child.wait() on a child that has terminated
wait(ps, child) == [ps EXCEPT ![child] = Reaped(@.status)]

\* What child.wait_timeout(timeout) can do.
WaitOutcomes == {"exited", "timeout", "wait failed"}

\* wait_with_timeout
wait_with_timeout(ps, child, outcome) ==
    CASE outcome = "wait failed" -> [procs |-> ps, result |-> "CommandFailed"]
      [] outcome = "exited" ->
            [procs |-> wait(ps, child),
             result |-> IF ps[child].status \in {"0", "1"} THEN "Ok"
                        ELSE "CommandFailed"]
      [] outcome = "timeout" ->
            [procs |-> kill_and_wait(ps, child), result |-> "CommandTimeout"]

\* ExitStatus::success
success(ps, child) == ps[child].status = "0"

----------------------------------------------------------------------------
(* report/symlink_resolver.rs *)

\* enum SymlinkResolutionResult
NotFound(target) == [tag |-> "NotFound", target |-> target]
Found(target) == [tag |-> "Found", target |-> target]
CycleDetected == [tag |-> "CycleDetected", target |-> << >>]

\* Mutant of resolve_single_symlink: the target, not the current path, is
\* recorded as visited.
RECURSIVE resolve_single_symlink_marks_target(_, _, _, _, _)
resolve_single_symlink_marks_target(current_path, target_path, fs, links, visited) ==
    IF current_path \in visited THEN CycleDetected
    ELSE IF target_path \notin DOMAIN fs THEN NotFound(target_path)
    ELSE IF target_path \in DOMAIN links
         THEN resolve_single_symlink_marks_target(
                  target_path, links[target_path], fs, links,
                  visited \cup {target_path})
         ELSE Found(target_path)

\* Mutant of resolve_single_symlink: the chain is not followed past the first
\* target.
resolve_single_symlink_one_hop(current_path, target_path, fs, links, visited) ==
    IF current_path = target_path THEN CycleDetected
    ELSE IF target_path \notin DOMAIN fs THEN NotFound(target_path)
    ELSE Found(target_path)

\* SymlinkResolver::resolve_single_symlink
RECURSIVE resolve_single_symlink(_, _, _, _, _)
resolve_single_symlink(current_path, target_path, fs, links, visited) ==
    IF current_path \in visited THEN CycleDetected
    ELSE IF target_path \notin DOMAIN fs THEN NotFound(target_path)
    ELSE IF target_path \in DOMAIN links
         THEN resolve_single_symlink(target_path, links[target_path], fs, links,
                                     visited \cup {current_path})
         ELSE Found(target_path)

\* SymlinkResolver::resolve_symlinks: every symlink with a fresh visited set.
resolve_symlinks(fs, links) ==
    [symlink_path \in DOMAIN links |->
        resolve_single_symlink(symlink_path, links[symlink_path], fs, links, {})]

\* SymlinkResolver::resolve: Option<&SymlinkResolutionResult>
symlink_resolve(resolved, path) ==
    IF path \in DOMAIN resolved THEN Some(resolved[path]) ELSE None

----------------------------------------------------------------------------
(* report/dependency_resolver.rs *)

\* enum DependencyStatus; Error(String) carries format!("{prefix}{path}").
StatusFound == [tag |-> "Found", prefix |-> "", path |-> << >>]
StatusMissing == [tag |-> "Missing", prefix |-> "", path |-> << >>]
StatusError(prefix, path) == [tag |-> "Error", prefix |-> prefix, path |-> path]

\* DependencyResolverResult::new
DependencyResolverResult(status, kind, searched_paths, path) ==
    [status |-> status, kind |-> kind, path |-> path,
     searched_paths |-> searched_paths]

\* Mutant of resolve_package_dependency: a file that is not an ELF is reported
\* with kind Unknown and without its path.
resolve_package_dependency_reports_unknown(fs, path) ==
    IF path \in DOMAIN package_elfs(fs)
    THEN <<StatusFound, "Package", Some(path)>>
    ELSE IF path \in DOMAIN fs
         THEN <<StatusError("Found in package, but not an ELF file: ", path),
                "Unknown", None>>
         ELSE <<StatusMissing, "Unknown", None>>

\* DependencyResolver::resolve_package_dependency: (status, kind, path)
resolve_package_dependency(fs, path) ==
    IF path \in DOMAIN package_elfs(fs)
    THEN <<StatusFound, "Package", Some(path)>>
    ELSE IF path \in DOMAIN fs
         THEN <<StatusError("Found in package, but not an ELF file: ", path),
                "Package", Some(path)>>
         ELSE <<StatusMissing, "Unknown", None>>

\* Mutant of resolve_system_dependency: a target outside the System Dependency
\* Set ends the search with an Error.
resolve_system_dependency_ends_search(sysdeps, path) ==
    LET dependency_name ==
            IF file_name(path) = None THEN << >> ELSE file_name(path)[1]
    IN IF dependency_name \in sysdeps
       THEN <<StatusFound, "System", Some(path)>>
       ELSE <<StatusError("Not a system dependency: ", path), "Unknown", Some(path)>>

\* DependencyResolver::resolve_system_dependency: (status, kind, path)
resolve_system_dependency(sysdeps, path) ==
    LET dependency_name ==
            IF file_name(path) = None THEN << >> ELSE file_name(path)[1]
    IN IF dependency_name \in sysdeps
       THEN <<StatusFound, "System", Some(path)>>
       ELSE <<StatusMissing, "Unknown", Some(path)>>

\* Mutant of find_dependency: the target of a symlink resolved inside the
\* package is taken as found without a look at what it is.
find_dependency_trusts_target(fs, resolved, sysdeps, path) ==
    LET symlink_result == symlink_resolve(resolved, path) IN
    IF symlink_result # None
    THEN CASE symlink_result[1].tag = "NotFound" ->
                  resolve_system_dependency(sysdeps, symlink_result[1].target)
           [] symlink_result[1].tag = "Found" ->
                  <<StatusFound, "Package", Some(symlink_result[1].target)>>
           [] symlink_result[1].tag = "CycleDetected" ->
                  <<StatusError("Symlink cycle detected: ", path), "Unknown", None>>
    ELSE resolve_package_dependency(fs, path)

\* DependencyResolver::find_dependency: (status, kind, path)
find_dependency(fs, resolved, sysdeps, path) ==
    LET symlink_result == symlink_resolve(resolved, path) IN
    IF symlink_result # None
    THEN CASE symlink_result[1].tag = "NotFound" ->
                  resolve_system_dependency(sysdeps, symlink_result[1].target)
           [] symlink_result[1].tag = "Found" ->
                  resolve_package_dependency(fs, symlink_result[1].target)
           [] symlink_result[1].tag = "CycleDetected" ->
                  <<StatusError("Symlink cycle detected: ", path), "Unknown", None>>
    ELSE resolve_package_dependency(fs, path)

\* DependencyResolver::determine_search_paths
determine_search_paths(path, e) ==
    LET origin == IF parent(path) = None THEN SLASH ELSE parent(path)[1]
    IN normalize_paths(e, origin)

\* Mutant of search_loop: the outcome of the last lookup is returned as it is
\* when the directories are exhausted.
RECURSIVE search_loop_returns_last(_, _, _, _, _, _)
search_loop_returns_last(fs, resolved, sysdeps, search_paths, i, dependency) ==
    IF i > Len(search_paths)
    THEN DependencyResolverResult(StatusMissing, "Unknown", search_paths, None)
    ELSE LET dependency_path == join(search_paths[i], dependency)
             found == find_dependency(fs, resolved, sysdeps, dependency_path)
         IN IF found[1].tag = "Missing" /\ i < Len(search_paths)
            THEN search_loop_returns_last(fs, resolved, sysdeps, search_paths,
                                          i + 1, dependency)
            ELSE DependencyResolverResult(found[1], found[2], search_paths,
                                          found[3])

\* Mutant of search_loop: an Error does not stop the search while directories
\* remain.
RECURSIVE search_loop_skips_errors(_, _, _, _, _, _)
search_loop_skips_errors(fs, resolved, sysdeps, search_paths, i, dependency) ==
    IF i > Len(search_paths)
    THEN DependencyResolverResult(StatusMissing, "Unknown", search_paths, None)
    ELSE LET dependency_path == join(search_paths[i], dependency)
             found == find_dependency(fs, resolved, sysdeps, dependency_path)
         IN IF found[1].tag = "Found" \/ (found[1].tag = "Error" /\ i = Len(search_paths))
            THEN DependencyResolverResult(found[1], found[2], search_paths,
                                          found[3])
            ELSE search_loop_skips_errors(fs, resolved, sysdeps, search_paths,
                                          i + 1, dependency)

\* Mutant of search_loop: searched_paths lists only the directories that were
\* probed before the search stopped.
RECURSIVE search_loop_lists_probed(_, _, _, _, _, _)
search_loop_lists_probed(fs, resolved, sysdeps, search_paths, i, dependency) ==
    IF i > Len(search_paths)
    THEN DependencyResolverResult(StatusMissing, "Unknown", search_paths, None)
    ELSE LET dependency_path == join(search_paths[i], dependency)
             found == find_dependency(fs, resolved, sysdeps, dependency_path)
         IN IF found[1].tag = "Missing"
            THEN search_loop_lists_probed(fs, resolved, sysdeps, search_paths,
                                          i + 1, dependency)
            ELSE DependencyResolverResult(found[1], found[2],
                                          SubSeq(search_paths, 1, i), found[3])

\* The for loop of resolve_dependency over search_paths[i..].
RECURSIVE search_loop(_, _, _, _, _, _)
search_loop(fs, resolved, sysdeps, search_paths, i, dependency) ==
    IF i > Len(search_paths)
    THEN DependencyResolverResult(StatusMissing, "Unknown", search_paths, None)
    ELSE LET dependency_path == join(search_paths[i], dependency)
             found == find_dependency(fs, resolved, sysdeps, dependency_path)
         IN CASE found[1].tag = "Missing" ->
                     search_loop(fs, resolved, sysdeps, search_paths, i + 1,
                                 dependency)
              [] found[1].tag = "Found" ->
                     DependencyResolverResult(found[1], found[2], search_paths,
                                              found[3])
              [] found[1].tag = "Error" ->
                     DependencyResolverResult(found[1], found[2], search_paths,
                                              found[3])

\* Mutant of resolve_dependency: the package is searched first and the
\* System Dependency Set is consulted only for a name the search misses.
resolve_dependency_searches_first(fs, resolved, sysdeps, path, e, dependency) ==
    LET searched == search_loop(fs, resolved, sysdeps,
                                determine_search_paths(path, e), 1, dependency)
    IN IF searched.status.tag = "Missing" /\ dependency \in sysdeps
       THEN DependencyResolverResult(StatusFound, "System", << >>, None)
       ELSE searched

\* DependencyResolver::resolve_dependency
resolve_dependency(fs, resolved, sysdeps, path, e, dependency) ==
    IF dependency \in sysdeps
    THEN DependencyResolverResult(StatusFound, "System", << >>, None)
    ELSE search_loop(fs, resolved, sysdeps, determine_search_paths(path, e), 1,
                     dependency)

Range(seq) == {seq[i] : i \in DOMAIN seq}

\* DependencyResolver::resolve: collected into a map keyed by name.
resolve(fs, resolved, sysdeps, path, e) ==
    [dependency \in Range(e.dependencies) |->
        resolve_dependency(fs, resolved, sysdeps, path, e, dependency)]

\* Mutant of resolver_dependencies: an ELF that needs nothing gets no entry.
resolver_dependencies_skips_empty(fs, resolved, sysdeps) ==
    [path \in {q \in DOMAIN package_elfs(fs) :
                  package_elfs(fs)[q].dependencies # << >>} |->
        resolve(fs, resolved, sysdeps, path, package_elfs(fs)[path])]

\* DependencyResolver::dependencies: collected into a map keyed by ELF path.
resolver_dependencies(fs, resolved, sysdeps) ==
    [path \in DOMAIN package_elfs(fs) |->
        resolve(fs, resolved, sysdeps, path, package_elfs(fs)[path])]

----------------------------------------------------------------------------
(* report/errors.rs *)

\* Mutant of scan_filter_map: symlinks leaving the package are not exempted.
scan_filter_map_no_exemption(resolved, sysdeps, path) ==
    LET name == file_name(path) IN
    IF name = None THEN None
    ELSE IF name[1] \notin sysdeps THEN None
    ELSE Some(<<name[1], path>>)

\* The filter_map closure of scan_for_errors: Some((name, path)) or None.
scan_filter_map(resolved, sysdeps, path) ==
    LET name == file_name(path) IN
    IF name = None THEN None
    ELSE IF name[1] \notin sysdeps THEN None
    ELSE IF symlink_resolve(resolved, path) = None
            \/ symlink_resolve(resolved, path)[1].tag # "NotFound"
         THEN Some(<<name[1], path>>)
         ELSE None

\* Mutant of entry_push: the bucket is replaced instead of extended.
entry_push_replaces(acc, name, path) == (name :> <<path>>) @@ acc

\* acc.entry(name).or_default().push(path)
entry_push(acc, name, path) ==
    (name :> Append(IF name \in DOMAIN acc THEN acc[name] ELSE << >>, path)) @@ acc

\* The fold of scan_for_errors over the files in iteration order.
RECURSIVE scan_fold(_, _, _, _)
scan_fold(acc, resolved, sysdeps, iteration) ==
    IF iteration = << >> THEN acc
    ELSE LET hit == scan_filter_map(resolved, sysdeps, Head(iteration)) IN
         scan_fold(IF hit = None THEN acc ELSE entry_push(acc, hit[1][1], hit[1][2]),
                   resolved, sysdeps, Tail(iteration))

\* ReportError::SystemDependencyFoundInPackage
SystemDependencyFoundInPackage(dependency, paths) ==
    [dependency |-> dependency, paths |-> paths]

\* The orders in which a HashMap may iterate the keys S.
Iterations(S) ==
    {f \in [1..Cardinality(S) -> S] : \A i, j \in DOMAIN f : f[i] = f[j] => i = j}

\* scan_for_errors, for one iteration order of files and one of the buckets.
scan_for_errors(acc, key_iteration) ==
    [i \in DOMAIN key_iteration |->
        SystemDependencyFoundInPackage(key_iteration[i], acc[key_iteration[i]])]

----------------------------------------------------------------------------
(* report/system_dependencies.rs *)

\* char::is_whitespace on the characters of the model's texts.
is_whitespace(c) == c \in {" ", "\t", "\n", "\r"}

\* str::lines: the text is cut after each "\n"; the "\n" and a "\r" right
\* before it are not part of the line; a last line without "\n" is kept whole.
RECURSIVE lines(_)
lines(text) ==
    IF text = << >> THEN << >>
    ELSE LET pos == find(text, <<"\n">>) IN
         IF pos = None THEN <<text>>
         ELSE LET line == SubSeq(text, 1, pos[1])
                  stripped ==
                      IF line # << >> /\ line[Len(line)] = "\r"
                      THEN SubSeq(line, 1, Len(line) - 1) ELSE line
              IN <<stripped>> \o lines(SubSeq(text, pos[1] + 2, Len(text)))

\* str::trim_start
RECURSIVE trim_start(_)
trim_start(str) ==
    IF str # << >> /\ is_whitespace(Head(str)) THEN trim_start(Tail(str)) ELSE str

\* str::trim_end
RECURSIVE trim_end(_)
trim_end(str) ==
    IF str # << >> /\ is_whitespace(str[Len(str)])
    THEN trim_end(SubSeq(str, 1, Len(str) - 1)) ELSE str

\* str::trim
trim(str) == trim_end(trim_start(str))

\* The filter of from_file.
is_entry(line) == line # << >> /\ ~starts_with(line, <<"#">>)

\* Mutant of from_file: comments and blank lines are filtered before trimming.
from_file_filters_untrimmed(text) ==
    LET kept == SelectSeq(lines(text), is_entry)
    IN {trim(kept[i]) : i \in DOMAIN kept}

\* SystemDependencies::from_file on the text of the file.
from_file(text) ==
    LET trimmed == [i \in DOMAIN lines(text) |-> trim(lines(text)[i])]
        kept == SelectSeq(trimmed, is_entry)
    IN Range(kept)

----------------------------------------------------------------------------
(* Orderings: byte order of str, component order of Path, BTreeMap iteration. *)

\* The byte value of each character of the model's texts.
byte ==
    ("\t" :> 9) @@ ("\n" :> 10) @@ ("\r" :> 13) @@ (" " :> 32) @@ ("#" :> 35) @@
    ("$" :> 36) @@ ("." :> 46) @@ ("/" :> 47) @@ (":" :> 58) @@ ("G" :> 71) @@
    ("I" :> 73) @@ ("N" :> 78) @@ ("O" :> 79) @@ ("R" :> 82) @@ ("a" :> 97) @@
    ("b" :> 98) @@ ("l" :> 108) @@ ("o" :> 111) @@ ("x" :> 120) @@
    ("y" :> 121) @@ ("{" :> 123) @@ ("}" :> 125)

\* Ord for str: -1, 0 or 1.
RECURSIVE str_cmp(_, _)
str_cmp(a, b) ==
    IF a = << >> THEN (IF b = << >> THEN 0 ELSE -1)
    ELSE IF b = << >> THEN 1
    ELSE IF Head(a) = Head(b) THEN str_cmp(Tail(a), Tail(b))
    ELSE IF byte[Head(a)] < byte[Head(b)] THEN -1 ELSE 1

\* Ord for the components of two absolute paths.
RECURSIVE components_cmp(_, _)
components_cmp(a, b) ==
    IF a = << >> THEN (IF b = << >> THEN 0 ELSE -1)
    ELSE IF b = << >> THEN 1
    ELSE IF str_cmp(Head(a), Head(b)) # 0 THEN str_cmp(Head(a), Head(b))
    ELSE components_cmp(Tail(a), Tail(b))

\* Ord for Path
path_cmp(a, b) == components_cmp(components(a), components(b))

\* BTreeMap<&Path, _>::iter: the keys in ascending order.
RECURSIVE btree_keys(_)
btree_keys(S) ==
    IF S = {} THEN << >>
    ELSE LET least == CHOOSE k \in S : \A o \in S : path_cmp(k, o) <= 0
         IN <<least>> \o btree_keys(S \ {least})

\* One iteration order for each inner HashMap<&str, _> of a map of maps.
InnerIterations(map) ==
    {order \in [DOMAIN map -> UNION {Iterations(DOMAIN map[k]) : k \in DOMAIN map}] :
        \A k \in DOMAIN map : order[k] \in Iterations(DOMAIN map[k])}

----------------------------------------------------------------------------
(* report/totals *)

Totals_default ==
    [missing |-> 0, missing_unique |-> 0, found |-> 0, found_unique |-> 0,
     error |-> 0, system |-> 0, package |-> 0, unknown |-> 0, total |-> 0,
     total_unique |-> 0]

status_field(status) ==
    CASE status.tag = "Missing" -> "missing"
      [] status.tag = "Found" -> "found"
      [] status.tag = "Error" -> "error"

kind_field(kind) ==
    CASE kind = "System" -> "system"
      [] kind = "Package" -> "package"
      [] kind = "Unknown" -> "unknown"

\* The body of `for (dependency, result) in deps`, without the DashSet inserts.
totals_count(t, result) ==
    LET by_status == [t EXCEPT ![status_field(result.status)] = @ + 1]
    IN [by_status EXCEPT ![kind_field(result.kind)] = @ + 1]

RECURSIVE totals_for(_, _, _)
totals_for(t, deps, names) ==
    IF names = {} THEN t
    ELSE LET dependency == CHOOSE d \in names : TRUE
         IN totals_for(totals_count(t, deps[dependency]), deps,
                       names \ {dependency})

\* fold(Totals::default, ..) over one piece of the parallel iterator.
RECURSIVE totals_fold(_, _, _)
totals_fold(t, report_dependencies, piece) ==
    IF piece = << >> THEN t
    ELSE LET deps == report_dependencies[Head(piece)]
         IN totals_fold(totals_for(t, deps, DOMAIN deps), report_dependencies,
                        Tail(piece))

\* Mutant of totals_add: total is summed like the other counters.
totals_add_sums_total(a, b) ==
    [missing |-> a.missing + b.missing, missing_unique |-> 0,
     found |-> a.found + b.found, found_unique |-> 0,
     error |-> a.error + b.error, system |-> a.system + b.system,
     package |-> a.package + b.package, unknown |-> a.unknown + b.unknown,
     total |-> a.total + b.total, total_unique |-> 0]

\* impl Add for Totals
totals_add(a, b) ==
    [missing |-> a.missing + b.missing, missing_unique |-> 0,
     found |-> a.found + b.found, found_unique |-> 0,
     error |-> a.error + b.error, system |-> a.system + b.system,
     package |-> a.package + b.package, unknown |-> a.unknown + b.unknown,
     total |-> (a.missing + b.missing) + (a.found + b.found)
                 + (a.error + b.error),
     total_unique |-> 0]

\* par_iter().fold(..).reduce(Totals::default, |a, b| a + b): every way of
\* splitting the entries into pieces.  A piece that is not split is folded and
\* added to the identity; two halves are added to each other.
RECURSIVE totals_reduce(_, _)
totals_reduce(report_dependencies, entries) ==
    {totals_add(Totals_default,
                totals_fold(Totals_default, report_dependencies, entries))}
    \cup UNION {{totals_add(a, b) :
                    a \in totals_reduce(report_dependencies,
                                        SubSeq(entries, 1, k)),
                    b \in totals_reduce(report_dependencies,
                                        SubSeq(entries, k + 1, Len(entries)))} :
                k \in 1..(Len(entries) - 1)}

\* Mutant of unique_names: a name is held once for each ELF that needs it.
unique_names_per_elf(report_dependencies, tags) ==
    UNION {{<<p, d>> : d \in {d \in DOMAIN report_dependencies[p] :
                                 report_dependencies[p][d].status.tag \in tags}} :
           p \in DOMAIN report_dependencies}

\* The names a DashSet holds after the fold.
unique_names(report_dependencies, tags) ==
    UNION {{d \in DOMAIN report_dependencies[p] :
               report_dependencies[p][d].status.tag \in tags} :
           p \in DOMAIN report_dependencies}

\* dependencies::Totals::calculate: the Totals each split can produce.
dependencies_calculate(report_dependencies) ==
    {[t EXCEPT
        !.total_unique = Cardinality(unique_names(report_dependencies,
                                                  {"Missing", "Found", "Error"})),
        !.missing_unique = Cardinality(unique_names(report_dependencies,
                                                    {"Missing"})),
        !.found_unique = Cardinality(unique_names(report_dependencies,
                                                  {"Found"}))] :
     t \in totals_reduce(report_dependencies,
                         btree_keys(DOMAIN report_dependencies))}

\* elf::Totals::calculate
elfs_calculate(elfs) ==
    LET count(kind) == Cardinality({p \in DOMAIN elfs : elfs[p].kind = kind})
    IN [none |-> count("None"), binaries |-> count("Executable"),
        shared_libraries |-> count("SharedObject"),
        relocatable |-> count("Relocatable"), core |-> count("Core"),
        total |-> count("None") + count("Executable") + count("SharedObject")
                    + count("Relocatable") + count("Core")]

\* ReportTotals::new
ReportTotals(fs, elfs, dependency_totals) ==
    [files |-> Cardinality(DOMAIN fs), elfs |-> elfs_calculate(elfs),
     dependencies |-> dependency_totals]

NoTotals == ReportTotals(<< >>, << >>, Totals_default)

----------------------------------------------------------------------------
(* report/mod.rs, main.rs: the report as JSON, the report file. *)

\* A JSON object written from a map: its members in the order of emission.
JMap(pairs) == [json |-> "object", pairs |-> pairs]

\* impl Serialize for DependencyResolverResult
serialize_result(result) ==
    IF result.path # None
    THEN [status |-> result.status, type |-> result.kind, path |-> result.path[1]]
    ELSE [status |-> result.status, type |-> result.kind,
          searched_paths |-> result.searched_paths]

\* The HashMap<&str, DependencyResolverResult> of one ELF.
serialize_results(deps, iteration) ==
    JMap([i \in DOMAIN iteration |->
            <<iteration[i], serialize_result(deps[iteration[i]])>>])

\* The canonical path of the package file.
PackagePath == <<"/", "p">>

\* #[derive(Serialize)] struct Report, through serde_json::to_writer_pretty.
to_json(report_totals, report_errors, report_dependencies, order, elfs) ==
    LET keys == btree_keys(DOMAIN report_dependencies)
        elf_keys == btree_keys(DOMAIN elfs)
    IN [package |-> PackagePath,
        totals |-> report_totals,
        errors |-> report_errors,
        dependencies |->
            JMap([i \in DOMAIN keys |->
                    <<keys[i], serialize_results(report_dependencies[keys[i]],
                                                 order[keys[i]])>>]),
        files |-> JMap([i \in DOMAIN elf_keys |->
                          <<elf_keys[i], elfs[elf_keys[i]]>>])]

\* Sorting the members of one object by key.
RECURSIVE sort_pairs(_)
sort_pairs(pairs) ==
    IF pairs = << >> THEN << >>
    ELSE LET i == CHOOSE i \in DOMAIN pairs :
                     \A j \in DOMAIN pairs : str_cmp(pairs[i][1], pairs[j][1]) <= 0
             rest == [j \in 1..(Len(pairs) - 1) |->
                         IF j < i THEN pairs[j] ELSE pairs[j + 1]]
         IN <<pairs[i]>> \o sort_pairs(rest)

\* The report with the keys of every object sorted; arrays keep their order.
sort_keys(json) ==
    LET inner(pair) == <<pair[1], JMap(sort_pairs(pair[2].pairs))>>
        outer == json.dependencies.pairs
    IN [json EXCEPT
          !.dependencies = JMap(sort_pairs([i \in DOMAIN outer |-> inner(outer[i])])),
          !.files = JMap(sort_pairs(json.files.pairs))]

NoJson == [package |-> << >>]
Absent == [state |-> "absent", json |-> NoJson]
Partial == [state |-> "partial", json |-> NoJson]
Complete(json) == [state |-> "complete", json |-> json]

NoExit == [tag |-> "None", kind |-> "", count |-> 0]
ExitOk == [tag |-> "Ok", kind |-> "", count |-> 0]
ExitErr(kind, count) == [tag |-> "Err", kind |-> kind, count |-> count]

\* What File::create and serde_json::to_writer_pretty can do.
WriteOutcomes == {"create failed", "write failed", "written"}

\* Mutant of write_report_to_file: the serialization error is swallowed.
write_report_to_file_ignores_error(file, json, outcome) ==
    CASE outcome = "create failed" ->
              [file |-> file, result |-> ExitErr("Failed to create JSON output file", 0)]
      [] outcome = "write failed" -> [file |-> Partial, result |-> ExitOk]
      [] outcome = "written" -> [file |-> Complete(json), result |-> ExitOk]

\* write_report_to_file: File::create truncates the file, the report is
\* written into it, and each of the two can fail.
write_report_to_file(file, json, outcome) ==
    CASE outcome = "create failed" ->
              [file |-> file, result |-> ExitErr("Failed to create JSON output file", 0)]
      [] outcome = "write failed" ->
              [file |-> Partial, result |-> ExitErr("Failed to serialize report to JSON", 0)]
      [] outcome = "written" -> [file |-> Complete(json), result |-> ExitOk]

----------------------------------------------------------------------------
(* report/validate.rs *)

ErrorLine(path, dependency, error) ==
    [path |-> path, dependency |-> dependency, error |-> error]

\* for (dependency, result) in dependencies { if let Error(..) { eprintln! } }
RECURSIVE error_lines_of(_, _, _)
error_lines_of(path, deps, iteration) ==
    IF iteration = << >> THEN << >>
    ELSE LET result == deps[Head(iteration)]
             rest == error_lines_of(path, deps, Tail(iteration))
         IN IF result.status.tag = "Error"
            THEN <<ErrorLine(path, Head(iteration), result.status)>> \o rest
            ELSE rest

\* for (path, dependencies) in &report.dependencies { .. }
RECURSIVE error_lines(_, _, _)
error_lines(report_dependencies, order, keys) ==
    IF keys = << >> THEN << >>
    ELSE error_lines_of(Head(keys), report_dependencies[Head(keys)],
                        order[Head(keys)])
         \o error_lines(report_dependencies, order, Tail(keys))

\* Mutant of validate_report: the missing count is looked at first.
validate_report_missing_first(report_totals, report_dependencies, order) ==
    IF report_totals.dependencies.missing > 0
    THEN [printed |-> << >>,
          result |-> ExitErr("Missing dependencies found in the report",
                             report_totals.dependencies.missing)]
    ELSE IF report_totals.dependencies.error > 0
    THEN [printed |-> error_lines(report_dependencies, order,
                                  btree_keys(DOMAIN report_dependencies)),
          result |-> ExitErr("Error dependencies found in the report",
                             report_totals.dependencies.error)]
    ELSE [printed |-> << >>, result |-> ExitOk]

\* Mutant of validate_report: a record of the Error Scanner fails the report.
validate_report_fails_on_errors(report_totals, report_dependencies, order) ==
    IF report_totals.dependencies.error > 0
    THEN [printed |-> error_lines(report_dependencies, order,
                                  btree_keys(DOMAIN report_dependencies)),
          result |-> ExitErr("Error dependencies found in the report",
                             report_totals.dependencies.error)]
    ELSE IF report_totals.dependencies.missing > 0
    THEN [printed |-> << >>,
          result |-> ExitErr("Missing dependencies found in the report",
                             report_totals.dependencies.missing)]
    ELSE IF errors # << >>
    THEN [printed |-> << >>,
          result |-> ExitErr("System dependencies found in the package",
                             Len(errors))]
    ELSE [printed |-> << >>, result |-> ExitOk]

\* validate_report
validate_report(report_totals, report_dependencies, order) ==
    IF report_totals.dependencies.error > 0
    THEN [printed |-> error_lines(report_dependencies, order,
                                  btree_keys(DOMAIN report_dependencies)),
          result |-> ExitErr("Error dependencies found in the report",
                             report_totals.dependencies.error)]
    ELSE IF report_totals.dependencies.missing > 0
    THEN [printed |-> << >>,
          result |-> ExitErr("Missing dependencies found in the report",
                             report_totals.dependencies.missing)]
    ELSE [printed |-> << >>, result |-> ExitOk]

----------------------------------------------------------------------------
(* report/console.rs, report/utils.rs: the table of missing dependencies. *)

\* The filter on DependencyStatus::Missing over one HashMap, in its iteration
\* order.
RECURSIVE missing_names(_, _)
missing_names(deps, iteration) ==
    IF iteration = << >> THEN << >>
    ELSE (IF deps[Head(iteration)].status.tag = "Missing"
          THEN <<Head(iteration)>> ELSE << >>)
         \o missing_names(deps, Tail(iteration))

\* missing_dependencies: (elf_path, missing) for the ELFs with a Missing
\* result, over keys in ascending order; the stable sort by path changes nothing.
RECURSIVE missing_dependencies(_, _, _)
missing_dependencies(report_dependencies, order, keys) ==
    IF keys = << >> THEN << >>
    ELSE LET missing == missing_names(report_dependencies[Head(keys)],
                                      order[Head(keys)])
         IN (IF missing # << >> THEN <<<<Head(keys), missing>>>> ELSE << >>)
            \o missing_dependencies(report_dependencies, order, Tail(keys))

\* The loop over common.components().zip(path.components()): the components
\* are pushed while they are equal.
RECURSIVE zip_common(_, _)
zip_common(common, path) ==
    IF common = << >> \/ path = << >> THEN << >>
    ELSE IF Head(common) = Head(path)
         THEN <<Head(common)>> \o zip_common(Tail(common), Tail(path))
         ELSE << >>

\* The loop of find_common_prefix over paths.iter().skip(1).
RECURSIVE fold_common(_, _)
fold_common(common, paths) ==
    IF paths = << >> THEN common
    ELSE fold_common(zip_common(common, components(Head(paths))), Tail(paths))

\* find_common_prefix on absolute paths: the root component is common to all,
\* so the result is never the empty path.
find_common_prefix(paths) ==
    IF paths = << >> THEN None
    ELSE Some(rooted(fold_common(components(paths[1]), Tail(paths))))

\* [str]::join(sep)
RECURSIVE str_join(_, _)
str_join(strs, sep) ==
    IF strs = << >> THEN << >>
    ELSE IF Len(strs) = 1 THEN strs[1]
    ELSE strs[1] \o sep \o str_join(Tail(strs), sep)

\* Path::strip_prefix: Some(the relative rest) when the components of base
\* begin those of path, None for the StripPrefixError.
strip_prefix(path, base) ==
    LET cs == components(path)
        bs == components(base)
    IN IF Len(bs) <= Len(cs) /\ SubSeq(cs, 1, Len(bs)) = bs
       THEN Some(str_join(SubSeq(cs, Len(bs) + 1, Len(cs)), SLASH))
       ELSE None

\* The cells of one row.
Row(path_str, deps_str) == [path_str |-> path_str, deps_str |-> deps_str]

\* missing_dependencies_table: the rows added to the table.
missing_dependencies_table(missing_deps) ==
    LET paths == [i \in DOMAIN missing_deps |-> missing_deps[i][1]]
        common_prefix == find_common_prefix(paths)
        display_path(path) ==
            IF common_prefix # None
            THEN (IF strip_prefix(path, common_prefix[1]) # None
                  THEN strip_prefix(path, common_prefix[1])[1] ELSE path)
            ELSE path
    IN [i \in DOMAIN missing_deps |->
          Row(display_path(missing_deps[i][1]),
              str_join(missing_deps[i][2], <<",", " ">>))]

\* What summarize_report prints of the table: nothing when no ELF has a
\* Missing result.
NoTable == None

summarize_report(report_dependencies, order) ==
    LET missing_deps == missing_dependencies(report_dependencies, order,
                                             btree_keys(DOMAIN report_dependencies))
    IN IF missing_deps # << >>
       THEN Some(missing_dependencies_table(missing_deps)) ELSE NoTable

----------------------------------------------------------------------------
(* The inputs: packages, system dependency sets, dynamic sections. *)

Str_a == <<"/", "a">>
Str_b == <<"/", "b">>
Name_x == <<"x">>
Name_y == <<"y">>

\* Dependency names and basenames.
Names == {Name_x, Name_y}

\* Directories of the package, and one outside of it.
Dirs == {Str_a, Str_b}
OutsideDir == <<"/", "o">>

PackagePaths == {join(d, n) : d \in Dirs, n \in Names}
OutsidePaths == {join(OutsideDir, n) : n \in Names}

\* RPATH/RUNPATH of the ELFs a package may hold.
ElfCandidates ==
    { Elf("SharedObject", << >>, << >>, << >>),
      Elf("SharedObject", <<Name_y>>, << >>, << >>),
      Elf("Executable", <<Name_x, Name_y>>, << >>, <<Str_a, Str_b>>),
      Elf("Executable", <<Name_y, Name_y>>, <<Str_a>>,
          <<ORIGIN \o SLASH \o ORIGIN_BRACES,
            ORIGIN_BRACES \o <<"/", ".", ".", "/", "b">>>>),
      Elf("Executable", <<Name_x>>, <<Str_b, ORIGIN, Str_b>>, << >>) }

\* PackageFile::new keeps only ELFs that Elf::from_path accepts.
ElfRecords == {e \in ElfCandidates : validate(e.rpath, e.runpath) = << >>}

PackageFiles ==
    {File} \cup {ElfFile(e) : e \in ElfRecords}
           \cup {Symlink(t) : t \in PackagePaths \cup OutsidePaths}

\* Packages of three entries in which a needed name is reached through a
\* symlink: the ELF /b/x needs x and y and searches /a, then /b; /a/x links to
\* /a/y, which is any package file.
LinkedPackages ==
    {(join(Str_b, Name_x) :>
         ElfFile(Elf("Executable", <<Name_x, Name_y>>, << >>, <<Str_a, Str_b>>)))
     @@ (join(Str_a, Name_x) :> Symlink(join(Str_a, Name_y)))
     @@ (join(Str_a, Name_y) :> f) : f \in PackageFiles}

\* PackageExtractor::process collects at least one entry.
Packages ==
    UNION {[D -> PackageFiles] :
             D \in {D \in SUBSET PackagePaths :
                      Cardinality(D) >= 1 /\ Cardinality(D) <= MaxFiles}}
    \cup LinkedPackages

NoResult == [tag |-> "None", elf |-> NoElf, paths |-> << >>]
NoDynamic == [needed |-> << >>, rpath |-> None, runpath |-> None]

----------------------------------------------------------------------------
(* main on one package and one System Dependency Set, from Report::new on. *)

NoArchive == [path |-> << >>, tree |-> None]
NoSum == << >>
NoCalc == << >>

Init ==
    /\ files \in Packages
    /\ system_dependencies \in SUBSET Names
    /\ pc = "new"
    /\ symlinks = << >>
    /\ dependencies = << >>
    /\ totals = NoTotals
    /\ errors = << >>
    /\ report_file = Absent
    /\ stderr = << >>
    /\ exit = NoExit
    /\ previous = None
    /\ dynamic = NoDynamic
    /\ from_path_result = NoResult
    /\ elf_origin = SLASH
    /\ normalized_paths = << >>
    /\ archive = NoArchive
    /\ procs = << >>
    /\ package_result = NoPackage
    /\ content = << >>
    /\ stdout = NoTable
    /\ sum = NoSum
    /\ calc = NoCalc
    /\ call = None

\* SymlinkResolver::new
SymlinkResolverNew ==
    /\ pc = "new"
    /\ symlinks' = resolve_symlinks(files, package_symlinks(files))
    /\ pc' = "symlinks"
    /\ UNCHANGED <<files, system_dependencies, dependencies, totals, errors,
                   mainVars, elfVars, extractVars, content,
                   stdout, stepVars>>

\* DependencyResolver::new(..).dependencies()
Dependencies ==
    /\ pc = "symlinks"
    /\ dependencies' = resolver_dependencies(files, symlinks, system_dependencies)
    /\ pc' = "dependencies"
    /\ UNCHANGED <<files, system_dependencies, symlinks, totals, errors,
                   mainVars, elfVars, extractVars, content,
                   stdout, stepVars>>

\* ReportTotals::new(package.files(), &package.elfs(), &dependencies)
ReportTotalsNew ==
    /\ pc = "dependencies"
    /\ \E dependency_totals \in dependencies_calculate(dependencies) :
         totals' = ReportTotals(files, package_elfs(files), dependency_totals)
    /\ pc' = "totals"
    /\ UNCHANGED <<files, system_dependencies, symlinks, dependencies, errors,
                   mainVars, elfVars, extractVars, content,
                   stdout, stepVars>>

\* scan_for_errors(package, &symlink_resolver, system_dependencies)
ScanForErrors ==
    /\ pc = "totals"
    /\ \E iteration \in Iterations(DOMAIN files) :
         LET acc == scan_fold(<< >>, symlinks, system_dependencies, iteration) IN
         \E key_iteration \in Iterations(DOMAIN acc) :
            errors' = scan_for_errors(acc, key_iteration)
    /\ pc' = "errors"
    /\ UNCHANGED <<files, system_dependencies, symlinks, dependencies, totals,
                   mainVars, elfVars, extractVars, content,
                   stdout, stepVars>>

\* write_report_to_file(&report, &args.report)?
WriteReportToFile ==
    /\ pc = "errors"
    /\ \E order \in InnerIterations(dependencies), outcome \in WriteOutcomes :
         LET json == to_json(totals, errors, dependencies, order,
                             package_elfs(files))
             written == write_report_to_file(report_file, json, outcome)
         IN /\ report_file' = written.file
            /\ IF written.result = ExitOk
               THEN pc' = "written" /\ exit' = exit
               ELSE pc' = "failed" /\ exit' = written.result
    /\ UNCHANGED <<files, system_dependencies, reportVars, stderr, previous,
                   elfVars, extractVars, content,
                   stdout, stepVars>>

\* summarize_report(&report)
SummarizeReport ==
    /\ pc = "written"
    /\ \E order \in InnerIterations(dependencies) :
         stdout' = summarize_report(dependencies, order)
    /\ pc' = "summarized"
    /\ UNCHANGED <<files, system_dependencies, reportVars, mainVars, elfVars,
                   extractVars, content, stepVars>>

\* validate_report(&report)
ValidateReport ==
    /\ pc = "summarized"
    /\ \E order \in InnerIterations(dependencies) :
         LET verdict == validate_report(totals, dependencies, order)
         IN stderr' = verdict.printed /\ exit' = verdict.result
    /\ pc' = "done"
    /\ UNCHANGED <<files, system_dependencies, reportVars, report_file,
                   previous, elfVars, extractVars, content,
                   stdout, stepVars>>

Next ==
    \/ SymlinkResolverNew
    \/ Dependencies
    \/ ReportTotalsNew
    \/ ScanForErrors
    \/ WriteReportToFile
    \/ SummarizeReport
    \/ ValidateReport

Spec == Init /\ [][Next]_vars

\* The program is started again on the same package and the same set, with
\* the report file of the first run kept aside.
RunAgain ==
    /\ pc = "done"
    /\ previous = None
    /\ previous' = Some(report_file.json)
    /\ pc' = "new"
    /\ symlinks' = << >>
    /\ dependencies' = << >>
    /\ totals' = NoTotals
    /\ errors' = << >>
    /\ stderr' = << >>
    /\ exit' = NoExit
    /\ stdout' = NoTable
    /\ UNCHANGED <<files, system_dependencies, report_file, elfVars,
                   extractVars, content, stepVars>>

NextTwice == Next \/ RunAgain

SpecTwice == Init /\ [][NextTwice]_vars

----------------------------------------------------------------------------
(* Report::new on one package and one System Dependency Set. *)

NextReportNew ==
    \/ SymlinkResolverNew
    \/ Dependencies
    \/ ReportTotalsNew
    \/ ScanForErrors

SpecReportNew == Init /\ [][NextReportNew]_vars

----------------------------------------------------------------------------
(* Elf::from_path on one file. *)

\* The text a DT_RPATH / DT_RUNPATH string is made of.
Pieces == {SLASH, ORIGIN, ORIGIN_BRACES, <<".", ".">>, <<"l">>, <<":">>}

RECURSIVE concat(_)
concat(pieces) == IF pieces = << >> THEN << >> ELSE Head(pieces) \o concat(Tail(pieces))

DynStrings == {concat(ps) : ps \in UNION {[1..n -> Pieces] : n \in 0..MaxPieces}}

\* The directory of the ELF inside the package: the root or below it.
Origins == {SLASH, Str_a}

DynamicSections ==
    [needed : {<< >>, <<Name_x>>},
     rpath : {None} \cup {Some(str) : str \in DynStrings},
     runpath : {None} \cup {Some(str) : str \in DynStrings}]

InitElf ==
    /\ dynamic \in DynamicSections
    /\ from_path_result = NoResult
    /\ elf_origin = SLASH
    /\ normalized_paths = << >>
    /\ pc = "from_path"
    /\ files = << >>
    /\ system_dependencies = {}
    /\ symlinks = << >>
    /\ dependencies = << >>
    /\ totals = NoTotals
    /\ errors = << >>
    /\ report_file = Absent
    /\ stderr = << >>
    /\ exit = NoExit
    /\ previous = None
    /\ archive = NoArchive
    /\ procs = << >>
    /\ package_result = NoPackage
    /\ content = << >>
    /\ stdout = NoTable
    /\ sum = NoSum
    /\ calc = NoCalc
    /\ call = None

\* Elf::from_path(path)
FromPath ==
    /\ pc = "from_path"
    /\ from_path_result' = from_path(dynamic)
    /\ pc' = "read"
    /\ UNCHANGED <<files, system_dependencies, reportVars, mainVars, dynamic,
                   elf_origin, normalized_paths, extractVars, content,
                   stdout, stepVars>>

\* elf.normalize_paths(origin), as determine_search_paths calls it on a record
\* that Elf::from_path returned, the ELF lying in the directory dir.
NormalizePaths ==
    /\ pc = "read"
    /\ from_path_result.tag = "Ok"
    /\ \E dir \in Origins :
         /\ elf_origin' = dir
         /\ normalized_paths' = normalize_paths(from_path_result.elf, dir)
    /\ pc' = "normalized"
    /\ UNCHANGED <<files, system_dependencies, reportVars, mainVars, dynamic,
                   from_path_result, extractVars, content,
                   stdout, stepVars>>

NextElf == FromPath \/ NormalizePaths

SpecElf == InitElf /\ [][NextElf]_vars

----------------------------------------------------------------------------
(* Package::new on one package file. *)

\* Package files with the extensions deb, rpm, txt and with none.
ArchivePaths ==
    { <<"/", "p", ".", "d", "e", "b">>, <<"/", "p", ".", "r", "p", "m">>,
      <<"/", "p", ".", "t", "x", "t">>, <<"/", "p">> }

Str_deb == <<"d", "e", "b">>
Str_rpm == <<"r", "p", "m">>

\* Paths below the extraction directory.
TreePaths ==
    { <<"a", "/", "x">>, <<"a", "/", "y">>, <<"a", "/", "x", ".", "P", "Y">> }

\* Link texts: relative, absolute, relative through "..".
LinkTexts ==
    { <<"y">>, <<"/", "o", "/", "x">>, <<".", ".", "/", "b", "/", ".", "/", "x">> }

\* Files: too small, text, not openable, not readable, not parsable, of an
\* unknown e_type, and ELFs without and with RUNPATH, valid and invalid.
FileImages ==
    { Image(TRUE, 10, TRUE, FALSE, "none", FALSE, "", NoDynamic),
      Image(TRUE, 100, TRUE, FALSE, "none", FALSE, "", NoDynamic),
      Image(TRUE, 100, FALSE, TRUE, "none", TRUE, "ET_DYN", NoDynamic),
      Image(TRUE, 100, TRUE, TRUE, "rest", TRUE, "ET_DYN", NoDynamic),
      Image(TRUE, 100, TRUE, TRUE, "none", FALSE, "", NoDynamic),
      Image(TRUE, 100, TRUE, TRUE, "none", TRUE, "ET_LOOS", NoDynamic),
      Image(TRUE, 100, TRUE, TRUE, "none", TRUE, "ET_DYN", NoDynamic),
      Image(TRUE, 100, TRUE, TRUE, "none", TRUE, "ET_EXEC",
            [needed |-> <<Name_x>>, rpath |-> None,
             runpath |-> Some(Str_a \o <<":">> \o ORIGIN)]),
      Image(TRUE, 100, TRUE, TRUE, "none", TRUE, "ET_DYN",
            [needed |-> << >>, rpath |-> None, runpath |-> Some(<<"l">>)]) }

TreeEntries ==
    {DirEntry} \cup {LinkEntry(link) : link \in LinkTexts}
               \cup {FileEntry(image) : image \in FileImages}

\* The trees a subprocess can leave in the extraction directory.
Trees ==
    UNION {[D -> TreeEntries] :
             D \in {D \in SUBSET TreePaths : Cardinality(D) <= MaxFiles}}

SpawnOutcomes == {"spawned", "not found", "failed"}

InitExtract ==
    /\ archive \in {[path |-> path, tree |-> None] : path \in ArchivePaths}
    /\ procs = << >>
    /\ package_result = NoPackage
    /\ pc = "package_new"
    /\ files = << >>
    /\ system_dependencies = {}
    /\ symlinks = << >>
    /\ dependencies = << >>
    /\ totals = NoTotals
    /\ errors = << >>
    /\ report_file = Absent
    /\ stderr = << >>
    /\ exit = NoExit
    /\ previous = None
    /\ dynamic = NoDynamic
    /\ from_path_result = NoResult
    /\ elf_origin = SLASH
    /\ normalized_paths = << >>
    /\ content = << >>
    /\ stdout = NoTable
    /\ sum = NoSum
    /\ calc = NoCalc
    /\ call = None

\* Package::extract up to the call of the extractor: TempDir::new()?, then
\* the match on the extension.
PackageExtract ==
    /\ pc = "package_new"
    /\ \E temp_dir \in {"created", "failed"} :
         LET ext == extension(archive.path) IN
         IF temp_dir = "failed"
         THEN /\ package_result' = PackageError("TempDirFailed", "")
              /\ pc' = "returned"
         ELSE IF ext = None
         THEN /\ package_result' = PackageError("UnsupportedPackageType", "unknown")
              /\ pc' = "returned"
         ELSE IF ext[1] = Str_deb
         THEN package_result' = package_result /\ pc' = "deb"
         ELSE IF ext[1] = Str_rpm
         THEN package_result' = package_result /\ pc' = "rpm"
         ELSE /\ package_result' = PackageError("UnsupportedPackageType", ext[1])
              /\ pc' = "returned"
    /\ UNCHANGED <<files, system_dependencies, reportVars, mainVars, elfVars,
                   archive, procs, content,
                   stdout, stepVars>>

\* A subprocess terminates on its own: exit code 0, another code, a signal.
ChildTerminates ==
    /\ \E child \in DOMAIN procs, status \in {"0", "1", "signal"} :
         /\ procs[child].state = "running"
         /\ procs' = [procs EXCEPT ![child] = Terminated(status)]
    /\ UNCHANGED <<files, system_dependencies, pc, reportVars, mainVars,
                   elfVars, archive, package_result, content,
                   stdout, stepVars>>

\* DebExtractor::extract: Command::new("dpkg-deb")..spawn()
SpawnDpkgDeb ==
    /\ pc = "deb"
    /\ \E outcome \in SpawnOutcomes :
         CASE outcome = "spawned" ->
                 /\ procs' = spawn(procs, "dpkg-deb")
                 /\ pc' = "deb wait"
                 /\ package_result' = package_result
           [] outcome = "not found" ->
                 /\ procs' = procs
                 /\ pc' = "close"
                 /\ package_result' = PackageError("CommandNotFound", "dpkg-deb")
           [] outcome = "failed" ->
                 /\ procs' = procs
                 /\ pc' = "close"
                 /\ package_result' = PackageError("CommandFailed", "dpkg-deb")
    /\ UNCHANGED <<files, system_dependencies, reportVars, mainVars, elfVars,
                   archive, content,
                   stdout, stepVars>>

\* DebExtractor::extract: wait_with_timeout(&mut child, ..)? and the test of
\* exit_status.success()
WaitDpkgDeb ==
    /\ pc = "deb wait"
    /\ \E outcome \in WaitOutcomes :
         /\ outcome = "exited" => procs["dpkg-deb"].state = "terminated"
         /\ outcome = "timeout" => procs["dpkg-deb"].state = "running"
         /\ LET waited == wait_with_timeout(procs, "dpkg-deb", outcome) IN
            /\ procs' = waited.procs
            /\ IF waited.result # "Ok"
               THEN /\ package_result' = PackageError(waited.result, "dpkg-deb")
                    /\ pc' = "close"
               ELSE IF success(waited.procs, "dpkg-deb")
               THEN package_result' = package_result /\ pc' = "process"
               ELSE /\ package_result' =
                          PackageError("ExtractionFailed",
                                       "dpkg-deb exited with non-zero status")
                    /\ pc' = "close"
    /\ UNCHANGED <<files, system_dependencies, reportVars, mainVars, elfVars,
                   archive, content,
                   stdout, stepVars>>

\* RpmExtractor::extract: Command::new("rpm2cpio")..stdout(piped).spawn(); the
\* piped stdout is always there to take.
SpawnRpm2cpio ==
    /\ pc = "rpm"
    /\ \E outcome \in SpawnOutcomes :
         CASE outcome = "spawned" ->
                 /\ procs' = spawn(procs, "rpm2cpio")
                 /\ pc' = "rpm cpio"
                 /\ package_result' = package_result
           [] outcome = "not found" ->
                 /\ procs' = procs
                 /\ pc' = "close"
                 /\ package_result' = PackageError("CommandNotFound", "rpm2cpio")
           [] outcome = "failed" ->
                 /\ procs' = procs
                 /\ pc' = "close"
                 /\ package_result' = PackageError("CommandFailed", "rpm2cpio")
    /\ UNCHANGED <<files, system_dependencies, reportVars, mainVars, elfVars,
                   archive, content,
                   stdout, stepVars>>

\* RpmExtractor::extract: Command::new("cpio")..stdin(rpm2cpio_stdout).spawn();
\* rpm2cpio is killed and waited for when cpio cannot be spawned.
SpawnCpio ==
    /\ pc = "rpm cpio"
    /\ \E outcome \in SpawnOutcomes :
         CASE outcome = "spawned" ->
                 /\ procs' = spawn(procs, "cpio")
                 /\ pc' = "rpm wait"
                 /\ package_result' = package_result
           [] outcome = "not found" ->
                 /\ procs' = kill_and_wait(procs, "rpm2cpio")
                 /\ pc' = "close"
                 /\ package_result' = PackageError("CommandNotFound", "cpio")
           [] outcome = "failed" ->
                 /\ procs' = kill_and_wait(procs, "rpm2cpio")
                 /\ pc' = "close"
                 /\ package_result' = PackageError("CommandFailed", "cpio")
    /\ UNCHANGED <<files, system_dependencies, reportVars, mainVars, elfVars,
                   archive, content,
                   stdout, stepVars>>

\* RpmExtractor::extract: wait_with_timeout(&mut cpio_child, ..)?
WaitCpio ==
    /\ pc = "rpm wait"
    /\ \E outcome \in WaitOutcomes :
         /\ outcome = "exited" => procs["cpio"].state = "terminated"
         /\ outcome = "timeout" => procs["cpio"].state = "running"
         /\ LET waited == wait_with_timeout(procs, "cpio", outcome) IN
            /\ procs' = waited.procs
            /\ IF waited.result # "Ok"
               THEN /\ package_result' = PackageError(waited.result, "cpio")
                    /\ pc' = "close"
               ELSE package_result' = package_result /\ pc' = "rpm reap"
    /\ UNCHANGED <<files, system_dependencies, reportVars, mainVars, elfVars,
                   archive, content,
                   stdout, stepVars>>

\* RpmExtractor::extract: let _ = rpm2cpio_child.wait(), which blocks until
\* rpm2cpio has terminated, and the test of cpio_status.success()
WaitRpm2cpio ==
    /\ pc = "rpm reap"
    /\ procs["rpm2cpio"].state = "terminated"
    /\ procs' = wait(procs, "rpm2cpio")
    /\ IF success(procs, "cpio")
       THEN package_result' = package_result /\ pc' = "process"
       ELSE /\ package_result' =
                  PackageError("ExtractionFailed", "cpio exited with non-zero status")
            /\ pc' = "close"
    /\ UNCHANGED <<files, system_dependencies, reportVars, mainVars, elfVars,
                   archive, content,
                   stdout, stepVars>>

\* Self::process(dest, package) on the tree the subprocesses left.
Process ==
    /\ pc = "process"
    /\ \E tree \in Trees :
         \E walk \in Iterations(DOMAIN tree) :
            \E walk_error \in {None} \cup {Some(n) : n \in 0..(Len(walk) - 1)} :
               /\ archive' = [archive EXCEPT !.tree = Some(tree)]
               /\ package_result' = process(tree, walk, walk_error)
    /\ pc' = "close"
    /\ UNCHANGED <<files, system_dependencies, reportVars, mainVars, elfVars,
                   procs, content,
                   stdout, stepVars>>

\* Package::extract after the extractor: dest.close()?, then Package::new
\* keeps the files.
CloseTempDir ==
    /\ pc = "close"
    /\ \E closed \in BOOLEAN :
         /\ package_result' = IF closed THEN package_result
                              ELSE PackageError("TempDirFailed", "")
         /\ files' = IF closed THEN package_result.value ELSE << >>
    /\ pc' = "returned"
    /\ UNCHANGED <<system_dependencies, reportVars, mainVars, elfVars, archive,
                   procs, content,
                   stdout, stepVars>>

NextExtract ==
    \/ PackageExtract
    \/ ChildTerminates
    \/ SpawnDpkgDeb
    \/ WaitDpkgDeb
    \/ SpawnRpm2cpio
    \/ SpawnCpio
    \/ WaitCpio
    \/ WaitRpm2cpio
    \/ Process
    \/ CloseTempDir

SpecExtract == InitExtract /\ [][NextExtract]_vars

----------------------------------------------------------------------------
(* create_system_dependencies on one file. *)

ContentChars == {"x", "#", " ", "\t", "\n", "\r"}

Contents == UNION {[1..n -> ContentChars] : n \in 0..MaxContent}

InitFromFile ==
    /\ content \in Contents
    /\ stdout = NoTable
    /\ sum = NoSum
    /\ calc = NoCalc
    /\ call = None
    /\ system_dependencies = {}
    /\ pc = "from_file"
    /\ exit = NoExit
    /\ files = << >>
    /\ symlinks = << >>
    /\ dependencies = << >>
    /\ totals = NoTotals
    /\ errors = << >>
    /\ report_file = Absent
    /\ stderr = << >>
    /\ previous = None
    /\ dynamic = NoDynamic
    /\ from_path_result = NoResult
    /\ elf_origin = SLASH
    /\ normalized_paths = << >>
    /\ archive = NoArchive
    /\ procs = << >>
    /\ package_result = NoPackage

\* SystemDependencies::from_file(path), fs::read_to_string succeeding or not.
FromFile ==
    /\ pc = "from_file"
    /\ \E readable \in BOOLEAN :
         IF readable
         THEN /\ system_dependencies' = from_file(content)
              /\ pc' = "loaded"
              /\ exit' = exit
         ELSE /\ system_dependencies' = system_dependencies
              /\ pc' = "failed"
              /\ exit' = ExitErr("Failed to read system dependencies file", 0)
    /\ UNCHANGED <<files, reportVars, report_file, stderr, previous, elfVars,
                   extractVars, content, stdout, stepVars>>

NextFromFile == FromFile

SpecFromFile == InitFromFile /\ [][NextFromFile]_vars

----------------------------------------------------------------------------
(* dependencies::Totals::calculate, one insert and one addition at a time. *)

\* Mutant of insert: nothing is added to the set.
insert_drops(set, value) == set

\* Mutant of insert: the set keeps the last name only.
insert_replaces(set, value) == {value}

\* DashSet::insert, HashSet::insert
insert(set, value) == set \cup {value}

\* One piece of the parallel iterator: the keys it still has to fold, the
\* names of the first of them it still has to visit, the name whose
\* total_unique insert is done and whose match is not, its Totals, and
\* whether it is not yet started, folding or folded.
Piece(keys, report_dependencies) ==
    [keys |-> keys,
     names |-> IF keys = << >> THEN {} ELSE DOMAIN report_dependencies[Head(keys)],
     pending |-> None,
     totals |-> Totals_default,
     state |-> "idle"]

\* The sequence seq with the element at i replaced by the elements of by.
Splice(seq, i, n, by) ==
    SubSeq(seq, 1, i - 1) \o by \o SubSeq(seq, i + n, Len(seq))

InitCalculate ==
    /\ files \in Packages
    /\ system_dependencies \in SUBSET Names
    /\ symlinks = resolve_symlinks(files, package_symlinks(files))
    /\ dependencies = resolver_dependencies(files, symlinks, system_dependencies)
    /\ calc = [pieces |-> <<Piece(btree_keys(DOMAIN dependencies), dependencies)>>,
               found_unique |-> {}, missing_unique |-> {}, total_unique |-> {},
               splits |-> 0]
    /\ pc = "calculate"
    /\ totals = NoTotals
    /\ errors = << >>
    /\ report_file = Absent
    /\ stderr = << >>
    /\ exit = NoExit
    /\ previous = None
    /\ dynamic = NoDynamic
    /\ from_path_result = NoResult
    /\ elf_origin = SLASH
    /\ normalized_paths = << >>
    /\ archive = NoArchive
    /\ procs = << >>
    /\ package_result = NoPackage
    /\ content = << >>
    /\ stdout = NoTable
    /\ sum = NoSum
    /\ call = None

calcUnchanged ==
    UNCHANGED <<files, system_dependencies, symlinks, dependencies, errors,
                mainVars, elfVars, extractVars, content, stdout, sum, call>>

\* par_iter(): a piece that has not started is split in two.
Split(i) ==
    /\ pc = "calculate"
    /\ calc.pieces[i].state = "idle"
    /\ \E k \in 1..(Len(calc.pieces[i].keys) - 1) :
         calc' = [calc EXCEPT
                    !.pieces = Splice(@, i, 1,
                        <<Piece(SubSeq(calc.pieces[i].keys, 1, k), dependencies),
                          Piece(SubSeq(calc.pieces[i].keys, k + 1,
                                       Len(calc.pieces[i].keys)), dependencies)>>),
                    !.splits = @ + 1]
    /\ UNCHANGED <<pc, totals>>
    /\ calcUnchanged

\* for (dependency, result) in deps { total_unique.insert(*dependency); ..
FoldInsert(i) ==
    /\ pc = "calculate"
    /\ calc.pieces[i].state \in {"idle", "folding"}
    /\ calc.pieces[i].pending = None
    /\ \E dependency \in calc.pieces[i].names :
         calc' = [calc EXCEPT
                    !.total_unique = insert(@, dependency),
                    !.pieces[i].pending = Some(dependency),
                    !.pieces[i].state = "folding"]
    /\ UNCHANGED <<pc, totals>>
    /\ calcUnchanged

\* .. match result.status { .. }  match result.kind { .. } }
FoldMatch(i) ==
    /\ pc = "calculate"
    /\ calc.pieces[i].pending # None
    /\ LET dependency == calc.pieces[i].pending[1]
           result == dependencies[Head(calc.pieces[i].keys)][dependency]
       IN calc' = [calc EXCEPT
                     !.missing_unique =
                         IF result.status.tag = "Missing"
                         THEN insert(@, dependency) ELSE @,
                     !.found_unique =
                         IF result.status.tag = "Found"
                         THEN insert(@, dependency) ELSE @,
                     !.pieces[i].totals = totals_count(@, result),
                     !.pieces[i].names = @ \ {dependency},
                     !.pieces[i].pending = None]
    /\ UNCHANGED <<pc, totals>>
    /\ calcUnchanged

\* The closure of fold returns for one entry and is called for the next.
FoldNext(i) ==
    /\ pc = "calculate"
    /\ calc.pieces[i].state \in {"idle", "folding"}
    /\ calc.pieces[i].keys # << >>
    /\ calc.pieces[i].names = {}
    /\ calc.pieces[i].pending = None
    /\ LET rest == Tail(calc.pieces[i].keys) IN
       calc' = [calc EXCEPT
                  !.pieces[i] = [Piece(rest, dependencies) EXCEPT
                                    !.totals = calc.pieces[i].totals,
                                    !.state = "folding"]]
    /\ UNCHANGED <<pc, totals>>
    /\ calcUnchanged

\* The piece is exhausted: reduce takes its Totals, added to the identity.
FoldDone(i) ==
    /\ pc = "calculate"
    /\ calc.pieces[i].state \in {"idle", "folding"}
    /\ calc.pieces[i].keys = << >>
    /\ calc' = [calc EXCEPT
                  !.pieces[i].totals = totals_add(Totals_default, @),
                  !.pieces[i].state = "folded"]
    /\ UNCHANGED <<pc, totals>>
    /\ calcUnchanged

\* reduce(Totals::default, |a, b| a + b) on two neighbours.
Reduce(i) ==
    /\ pc = "calculate"
    /\ i < Len(calc.pieces)
    /\ calc.pieces[i].state = "folded"
    /\ calc.pieces[i + 1].state = "folded"
    /\ calc' = [calc EXCEPT
                  !.pieces = Splice(@, i, 2,
                      <<[calc.pieces[i] EXCEPT
                           !.totals = totals_add(calc.pieces[i].totals,
                                                 calc.pieces[i + 1].totals)]>>)]
    /\ UNCHANGED <<pc, totals>>
    /\ calcUnchanged

\* totals.total_unique = total_unique.len(); .. ; totals
Calculated ==
    /\ pc = "calculate"
    /\ Len(calc.pieces) = 1
    /\ calc.pieces[1].state = "folded"
    /\ totals' = ReportTotals(files, package_elfs(files),
                    [calc.pieces[1].totals EXCEPT
                        !.total_unique = Cardinality(calc.total_unique),
                        !.missing_unique = Cardinality(calc.missing_unique),
                        !.found_unique = Cardinality(calc.found_unique)])
    /\ pc' = "calculated"
    /\ UNCHANGED calc
    /\ calcUnchanged

NextCalculate ==
    \/ \E i \in DOMAIN calc.pieces :
          Split(i) \/ FoldInsert(i) \/ FoldMatch(i) \/ FoldNext(i)
             \/ FoldDone(i) \/ Reduce(i)
    \/ Calculated

SpecCalculate == InitCalculate /\ [][NextCalculate]_vars

----------------------------------------------------------------------------
(* SymlinkResolver::resolve_symlinks, one call of resolve_single_symlink at a
   time. *)

\* The frame of a call of resolve_single_symlink made for the entry symlink of
\* the map, the call being the depth-th of its recursion.
Frame(symlink, current_path, target_path, visited, depth) ==
    [symlink |-> symlink, current_path |-> current_path,
     target_path |-> target_path, visited |-> visited, depth |-> depth]

InitSymlinks ==
    /\ files \in Packages
    /\ system_dependencies = {}
    /\ symlinks = << >>
    /\ call = None
    /\ pc = "resolve"
    /\ dependencies = << >>
    /\ totals = NoTotals
    /\ errors = << >>
    /\ report_file = Absent
    /\ stderr = << >>
    /\ exit = NoExit
    /\ previous = None
    /\ dynamic = NoDynamic
    /\ from_path_result = NoResult
    /\ elf_origin = SLASH
    /\ normalized_paths = << >>
    /\ archive = NoArchive
    /\ procs = << >>
    /\ package_result = NoPackage
    /\ content = << >>
    /\ stdout = NoTable
    /\ sum = NoSum
    /\ calc = NoCalc

callUnchanged ==
    UNCHANGED <<files, system_dependencies, dependencies, totals, errors,
                mainVars, elfVars, extractVars, content, stdout, sum, calc>>

\* The closure of map is called for the next entry of symlinks, with a new
\* visited set.
MapEntry ==
    /\ pc = "resolve"
    /\ call = None
    /\ \E symlink_path \in DOMAIN package_symlinks(files) \ DOMAIN symlinks :
         call' = Some(Frame(symlink_path, symlink_path,
                            package_symlinks(files)[symlink_path], {}, 1))
    /\ UNCHANGED <<pc, symlinks>>
    /\ callUnchanged

\* The result the call in progress returns without a further call, None when
\* it calls itself.
returned(frame, fs, links) ==
    IF frame.current_path \in frame.visited THEN Some(CycleDetected)
    ELSE IF frame.target_path \notin DOMAIN fs THEN Some(NotFound(frame.target_path))
    ELSE IF frame.target_path \in DOMAIN links THEN None
    ELSE Some(Found(frame.target_path))

\* resolve_single_symlink calls itself on the target.
Recurse ==
    /\ pc = "resolve"
    /\ call # None
    /\ returned(call[1], files, package_symlinks(files)) = None
    /\ call' = Some(Frame(call[1].symlink, call[1].target_path,
                          package_symlinks(files)[call[1].target_path],
                          insert(call[1].visited, call[1].current_path),
                          call[1].depth + 1))
    /\ UNCHANGED <<pc, symlinks>>
    /\ callUnchanged

\* resolve_single_symlink returns, through all its callers, to the closure,
\* whose pair is collected.
Return ==
    /\ pc = "resolve"
    /\ call # None
    /\ returned(call[1], files, package_symlinks(files)) # None
    /\ symlinks' = (call[1].symlink :>
                       returned(call[1], files, package_symlinks(files))[1])
                   @@ symlinks
    /\ call' = None
    /\ UNCHANGED pc
    /\ callUnchanged

\* The iterator is exhausted: collect() returns the map.
Collect ==
    /\ pc = "resolve"
    /\ call = None
    /\ DOMAIN package_symlinks(files) \ DOMAIN symlinks = {}
    /\ pc' = "resolved"
    /\ UNCHANGED <<symlinks, call>>
    /\ callUnchanged

NextSymlinks == MapEntry \/ Recurse \/ Return \/ Collect

\* The thread that runs resolve_symlinks is scheduled as long as it can run.
SpecSymlinks == InitSymlinks /\ [][NextSymlinks]_vars /\ WF_vars(NextSymlinks)

----------------------------------------------------------------------------
(* impl Add for Totals on three values. *)

\* The status and kind pairs a result can have.
ResultShapes ==
    {DependencyResolverResult(StatusFound, "System", << >>, None),
     DependencyResolverResult(StatusFound, "Package", << >>, None),
     DependencyResolverResult(StatusMissing, "Unknown", << >>, None),
     DependencyResolverResult(StatusError("", << >>), "Unknown", << >>, None),
     DependencyResolverResult(StatusError("", << >>), "Package", << >>, None)}

\* The fold closure applied to the results in turn.
RECURSIVE count_all(_, _)
count_all(t, results) ==
    IF results = << >> THEN t
    ELSE count_all(totals_count(t, Head(results)), Tail(results))

\* The values the fold hands to the reduce: the counts of the results of one
\* piece, total and the unique counts still 0.
FoldValues ==
    {count_all(Totals_default, results) :
        results \in UNION {[1..n -> ResultShapes] : n \in 0..MaxFiles}}

InitAdd ==
    /\ sum \in [a : FoldValues, b : FoldValues, c : FoldValues, sums : {None}]
    /\ pc = "add"
    /\ files = << >>
    /\ system_dependencies = {}
    /\ symlinks = << >>
    /\ dependencies = << >>
    /\ totals = NoTotals
    /\ errors = << >>
    /\ report_file = Absent
    /\ stderr = << >>
    /\ exit = NoExit
    /\ previous = None
    /\ dynamic = NoDynamic
    /\ from_path_result = NoResult
    /\ elf_origin = SLASH
    /\ normalized_paths = << >>
    /\ archive = NoArchive
    /\ procs = << >>
    /\ package_result = NoPackage
    /\ content = << >>
    /\ stdout = NoTable
    /\ calc = NoCalc
    /\ call = None

\* a + b, b + a, (a + b) + c, a + (b + c) and a + Totals::default()
Add ==
    /\ pc = "add"
    /\ sum' = [sum EXCEPT !.sums =
                  Some([ab |-> totals_add(sum.a, sum.b),
                        ba |-> totals_add(sum.b, sum.a),
                        ab_c |-> totals_add(totals_add(sum.a, sum.b), sum.c),
                        a_bc |-> totals_add(sum.a, totals_add(sum.b, sum.c)),
                        a_default |-> totals_add(sum.a, Totals_default)])]
    /\ pc' = "added"
    /\ UNCHANGED <<files, system_dependencies, reportVars, mainVars, elfVars,
                   extractVars, content, stdout, calc, call>>

NextAdd == Add

SpecAdd == InitAdd /\ [][NextAdd]_vars

----------------------------------------------------------------------------
(* Properties of the dependency resolver. *)

\* The search directories of the ELF at path p, as the resolver computes them.
SearchPathsOf(p) == determine_search_paths(p, files[p].elf)

\* What each search directory of the ELF at p yields for the name d.
ProbesOf(p, d) ==
    [i \in 1..Len(SearchPathsOf(p)) |->
        find_dependency(files, symlinks, system_dependencies,
                        join(SearchPathsOf(p)[i], d))]

\* The directories whose candidate yields Found or Error.
Deciding(probes) == {i \in DOMAIN probes : probes[i][1].tag # "Missing"}

First(S) == CHOOSE i \in S : \A j \in S : i <= j

\* C1: a needed name that is in the System Dependency Set resolves to
\* Found / System with no path and no searched paths, whatever the package holds.
C1_ShortCircuit ==
    \A p \in DOMAIN dependencies : \A d \in DOMAIN dependencies[p] :
        d \in system_dependencies =>
            /\ dependencies[p][d].status.tag = "Found"
            /\ dependencies[p][d].kind = "System"
            /\ dependencies[p][d].path = None
            /\ dependencies[p][d].searched_paths = << >>

\* A system name whose candidate in a search directory is a cyclic symlink or
\* a file that is not an ELF: the search would have ended in an Error.
C1_Witness ==
    \E p \in DOMAIN dependencies : \E d \in DOMAIN dependencies[p] :
        /\ d \in system_dependencies
        /\ \E i \in DOMAIN ProbesOf(p, d) :
              /\ join(SearchPathsOf(p)[i], d) \in DOMAIN files
              /\ ProbesOf(p, d)[i][1].tag = "Error"
        /\ dependencies[p][d].status.tag = "Found"

\* C2: Found implies kind System or Package; Missing implies kind Unknown
\* and no path.
C2_StatusKind ==
    \A p \in DOMAIN dependencies : \A d \in DOMAIN dependencies[p] :
        LET r == dependencies[p][d] IN
        /\ r.status.tag = "Found" => r.kind \in {"System", "Package"}
        /\ r.status.tag = "Missing" => r.kind = "Unknown" /\ r.path = None

\* A Missing result although one directory held a symlink leaving the package
\* (its lookup reports Missing together with the target path).
C2_Witness ==
    \E p \in DOMAIN dependencies : \E d \in DOMAIN dependencies[p] :
        /\ dependencies[p][d].status.tag = "Missing"
        /\ \E i \in DOMAIN ProbesOf(p, d) : ProbesOf(p, d)[i][3] # None

\* C3: for a name outside the System Dependency Set the result is decided by
\* the first search directory, in declaration order, whose candidate yields
\* Found or Error; it is Missing only when no directory yields either.
C3_FirstDecides ==
    \A p \in DOMAIN dependencies : \A d \in DOMAIN dependencies[p] :
        d \notin system_dependencies =>
            LET r == dependencies[p][d]
                probes == ProbesOf(p, d)
            IN IF Deciding(probes) = {}
               THEN r.status.tag = "Missing"
               ELSE /\ r.status = probes[First(Deciding(probes))][1]
                    /\ r.kind = probes[First(Deciding(probes))][2]
                    /\ r.path = probes[First(Deciding(probes))][3]

\* An Error at an earlier directory ends the search although a later
\* directory holds the dependency.
C3_Witness ==
    \E p \in DOMAIN dependencies : \E d \in DOMAIN dependencies[p] :
        /\ d \notin system_dependencies
        /\ dependencies[p][d].status.tag = "Error"
        /\ \E i, j \in DOMAIN ProbesOf(p, d) :
              /\ i < j
              /\ ProbesOf(p, d)[i][1].tag = "Error"
              /\ ProbesOf(p, d)[j][1].tag = "Found"

\* The directory of the ELF at p.
OriginOf(p) == IF parent(p) = None THEN SLASH ELSE parent(p)[1]

\* C4: with a non-empty runpath the searched directories are the normalized
\* runpath entries alone; rpath entries are searched only when runpath is empty.
C4_RunpathPrecedence ==
    \A p \in DOMAIN dependencies : \A d \in DOMAIN dependencies[p] :
        d \notin system_dependencies =>
            LET e == files[p].elf
                searched == dependencies[p][d].searched_paths
            IN /\ e.runpath # << >> =>
                     searched = filter_map_normalize(OriginOf(p), e.runpath)
               /\ e.runpath = << >> =>
                     searched = filter_map_normalize(OriginOf(p), e.rpath)

\* An ELF with both lists, whose rpath names a directory its runpath does not.
C4_Witness ==
    \E p \in DOMAIN dependencies : \E d \in DOMAIN dependencies[p] :
        /\ d \notin system_dependencies
        /\ files[p].elf.runpath # << >>
        /\ dependencies[p][d].searched_paths # << >>
        /\ \E i \in DOMAIN files[p].elf.rpath :
              /\ normalize_path(OriginOf(p), files[p].elf.rpath[i]) # None
              /\ normalize_path(OriginOf(p), files[p].elf.rpath[i])[1]
                    \notin Range(dependencies[p][d].searched_paths)

----------------------------------------------------------------------------
(* Properties of the ELF reader. *)

\* The offsets at which an origin token begins in s.
TokenOffsets(s) ==
    {i - 1 : i \in {j \in 1..Len(s) : MatchAt(s, ORIGIN, j) \/ MatchAt(s, ORIGIN_BRACES, j)}}

\* The validation rule: absolute, or the earliest origin token at offset 0.
RuleAccepts(s) ==
    \/ starts_with(s, SLASH)
    \/ TokenOffsets(s) # {} /\ First(TokenOffsets(s)) = 0

\* The entries of the file read, by list.
EntriesRead(tag) ==
    IF tag = "RUNPATH" THEN parse(dynamic).runpath ELSE parse(dynamic).rpath

\* The number of messages of from_path_result for the entry s of the list tag.
Messages(tag, s) ==
    Cardinality({i \in DOMAIN from_path_result.paths :
                    from_path_result.paths[i] = InvalidMessage(tag, s)})

\* The number of times the entry s stands in the list tag.
Occurs(tag, s) ==
    Cardinality({i \in DOMAIN EntriesRead(tag) : EntriesRead(tag)[i] = s})

\* C5: an entry is accepted by validation exactly when it begins with '/' or
\* its earliest `$ORIGIN` / `${ORIGIN}` token begins at byte offset 0.
C5_ValidationRule ==
    pc = "read" =>
        \A tag \in {"RUNPATH", "RPATH"} : \A s \in Range(EntriesRead(tag)) :
            (Messages(tag, s) = 0) <=> RuleAccepts(s)

\* C6: from_path fails with InvalidPaths exactly when an entry of either list
\* is invalid (rejected by invalid_path), with one message per invalid entry,
\* tagged by the list the entry came from.
C6_BothListsValidated ==
    pc = "read" =>
        /\ from_path_result.tag = "InvalidPaths" <=>
              \E tag \in {"RUNPATH", "RPATH"} :
                 \E s \in Range(EntriesRead(tag)) : invalid_path(s)
        /\ from_path_result.tag = "Ok" <=>
              \A tag \in {"RUNPATH", "RPATH"} :
                 \A s \in Range(EntriesRead(tag)) : ~invalid_path(s)
        /\ \A tag \in {"RUNPATH", "RPATH"} : \A s \in Range(EntriesRead(tag)) :
              Messages(tag, s) = IF invalid_path(s) THEN Occurs(tag, s) ELSE 0
        /\ \A i \in DOMAIN from_path_result.paths :
              \E tag \in {"RUNPATH", "RPATH"} :
                 /\ from_path_result.paths[i].prefix = tag
                 /\ from_path_result.paths[i].path \in Range(EntriesRead(tag))
        /\ Len(from_path_result.paths) =
              Cardinality({i \in DOMAIN EntriesRead("RUNPATH") :
                              invalid_path(EntriesRead("RUNPATH")[i])})
              + Cardinality({i \in DOMAIN EntriesRead("RPATH") :
                                invalid_path(EntriesRead("RPATH")[i])})

\* A file whose runpath is valid and non-empty and whose rpath holds an
\* invalid entry: the rpath, ignored for searching, is reported.
C6_Witness ==
    /\ pc = "read"
    /\ EntriesRead("RUNPATH") # << >>
    /\ \A s \in Range(EntriesRead("RUNPATH")) : ~invalid_path(s)
    /\ \E s \in Range(EntriesRead("RPATH")) : invalid_path(s)
    /\ from_path_result.tag = "InvalidPaths"
    /\ \A i \in DOMAIN from_path_result.paths :
          from_path_result.paths[i].prefix = "RPATH"

\* C19: an entry that passed validation never holds both tokens, and for
\* every absolute origin normalize_path turns it into an absolute path, so
\* normalization drops no validated entry.
C19_ValidatedNeverDropped ==
    pc = "normalized" =>
        LET e == from_path_result.elf
            chosen == IF e.runpath # << >> THEN e.runpath ELSE e.rpath
        IN /\ \A s \in Range(e.rpath) \cup Range(e.runpath) :
                 /\ ~(str_contains(s, ORIGIN) /\ str_contains(s, ORIGIN_BRACES))
                 /\ normalize_path(elf_origin, s) # None
                 /\ starts_with(normalize_path(elf_origin, s)[1], SLASH)
           /\ Len(normalized_paths) = Len(chosen)

----------------------------------------------------------------------------
(* Properties of the symlink resolver and of the error scanner. *)

Links == package_symlinks(files)

\* Where the chain starting at path p ends when it is followed for at most
\* fuel links: Some(end), or None while it is still on a symlink.
RECURSIVE ChainEnd(_, _)
ChainEnd(p, fuel) ==
    IF p \notin DOMAIN Links THEN Some(p)
    ELSE IF fuel = 0 THEN None
    ELSE ChainEnd(Links[p], fuel - 1)

\* A chain that is still on a symlink after as many links as the package has
\* symlinks has revisited one of them.
Revisits(s) == ChainEnd(s, Cardinality(DOMAIN Links)) = None
EndOf(s) == ChainEnd(s, Cardinality(DOMAIN Links))[1]

Resolved == DOMAIN symlinks = DOMAIN Links

\* C7: a symlink resolves to Cycle exactly when its chain revisits a symlink,
\* whether it lies on the cycle or only leads into it.
C7_CycleExactly ==
    pc # "new" =>
        /\ Resolved
        /\ \A s \in DOMAIN Links :
              (symlinks[s].tag = "CycleDetected") <=> Revisits(s)

\* A symlink that is not on a cycle but leads into one.
C7_Witness ==
    /\ pc # "new"
    /\ \E s \in DOMAIN Links :
          /\ Revisits(s)
          /\ Links[s] # s
          /\ Links[Links[s]] = Links[s]
          /\ symlinks[s].tag = "CycleDetected"

\* C8: a symlink whose chain does not cycle resolves to Found(t) exactly when
\* the chain ends at the non-symlink key t, and to NotFound(t) exactly when it
\* ends at the path t that is no key; the symlinks of one chain share t.
C8_TerminalTarget ==
    pc # "new" =>
        \A s \in DOMAIN Links :
            ~Revisits(s) =>
                /\ symlinks[s] =
                      IF EndOf(s) \in DOMAIN files
                      THEN Found(EndOf(s)) ELSE NotFound(EndOf(s))
                /\ symlinks[s].tag = "Found" =>
                      symlinks[s].target \in DOMAIN files \ DOMAIN Links
                /\ symlinks[s].tag = "NotFound" =>
                      symlinks[s].target \notin DOMAIN files
                /\ Links[s] \in DOMAIN Links => symlinks[s] = symlinks[Links[s]]

\* A chain of two symlinks.
C8_Witness ==
    /\ pc # "new"
    /\ \E s \in DOMAIN Links :
          /\ ~Revisits(s)
          /\ Links[s] \in DOMAIN Links
          /\ symlinks[s].tag = "NotFound"

\* A symlink whose chain ends outside the package.
LeavesPackage(p) ==
    p \in DOMAIN Links /\ ~Revisits(p) /\ EndOf(p) \notin DOMAIN files

\* The paths listed by the records of errors.
Listed == UNION {Range(errors[i].paths) : i \in DOMAIN errors}

\* C9: a symlink whose chain ends outside the package is listed in no record,
\* also when its basename is in the System Dependency Set.
C9_OutsideNeverListed ==
    \A p \in DOMAIN files : LeavesPackage(p) => p \notin Listed

\* Scanned: a symlink named like a system dependency that leaves the package
\* through another symlink, beside a listed path.
C9_Witness ==
    /\ pc = "errors"
    /\ \E p \in DOMAIN files :
          /\ LeavesPackage(p)
          /\ Links[p] \in DOMAIN files
          /\ file_name(p)[1] \in system_dependencies
          /\ p \notin Listed

\* The paths with basename b that the package ships.
Offending(b) ==
    {p \in DOMAIN files : file_name(p) = Some(b) /\ ~LeavesPackage(p)}

\* C10: one record for every system basename with an offending path, holding
\* exactly those paths once each; no other and no empty record.
C10_OneRecordPerBasename ==
    pc = "errors" =>
        /\ \A b \in system_dependencies :
              Cardinality({i \in DOMAIN errors : errors[i].dependency = b})
                 = IF Offending(b) = {} THEN 0 ELSE 1
        /\ \A i \in DOMAIN errors :
              /\ errors[i].dependency \in system_dependencies
              /\ errors[i].paths # << >>
              /\ Range(errors[i].paths) = Offending(errors[i].dependency)
              /\ Len(errors[i].paths) = Cardinality(Range(errors[i].paths))
        /\ system_dependencies = {} => errors = << >>

\* One record with two paths, one of them a symlink on a cycle.
C10_Witness ==
    /\ pc = "errors"
    /\ \E i \in DOMAIN errors :
          /\ Len(errors[i].paths) = 2
          /\ \E p \in Range(errors[i].paths) :
                p \in DOMAIN Links /\ Revisits(p)

----------------------------------------------------------------------------
(* Properties of the totals, of the report file and of the verdict. *)

Results ==
    UNION {{<<p, d>> : d \in DOMAIN dependencies[p]} : p \in DOMAIN dependencies}

ResultsWith(tag) ==
    {r \in Results : dependencies[r[1]][r[2]].status.tag = tag}

ErrorMessage == "Error dependencies found in the report"
MissingMessage == "Missing dependencies found in the report"

\* C11: validate_report returns an error exactly when the dependency totals
\* count an Error or a Missing result.  With an Error count above zero the
\* verdict is the error verdict, whatever the Missing count, and every Error
\* result is printed once with its ELF path, dependency name and message; with
\* no Error and a Missing count above zero it is the missing verdict; with both
\* counts zero it is Ok.
C11_ValidateVerdict ==
    pc = "done" =>
        LET t == totals.dependencies IN
        /\ (exit.tag = "Err") <=> (t.error > 0 \/ t.missing > 0)
        /\ t.error > 0 =>
              /\ exit = ExitErr(ErrorMessage, t.error)
              /\ Range(stderr) =
                    {ErrorLine(r[1], r[2], dependencies[r[1]][r[2]].status) :
                        r \in ResultsWith("Error")}
              /\ Len(stderr) = Cardinality(ResultsWith("Error"))
        /\ (t.error = 0 /\ t.missing > 0) =>
              exit = ExitErr(MissingMessage, t.missing) /\ stderr = << >>
        /\ (t.error = 0 /\ t.missing = 0) => exit = ExitOk /\ stderr = << >>

C11_Witness ==
    /\ pc = "done"
    /\ totals.dependencies.error > 0
    /\ totals.dependencies.missing > 0
    /\ exit = ExitErr(ErrorMessage, totals.dependencies.error)
    /\ stderr # << >>

\* C12: two runs on the same package and the same System Dependency Set write
\* the same JSON once the keys of every object are sorted, the arrays being
\* compared in order.
C12_ByteIdentical ==
    (previous # None /\ pc = "done") =>
        sort_keys(previous[1]) = sort_keys(report_file.json)

\* C13: a verdict of validate_report is returned only after the report file
\* has been written completely with the report of this run, and a failure to
\* write it ends the run without a verdict.
C13_WrittenBeforeVerdict ==
    /\ pc = "done" =>
          /\ report_file.state = "complete"
          /\ \E order \in InnerIterations(dependencies) :
                report_file.json = to_json(totals, errors, dependencies, order,
                                           package_elfs(files))
    /\ pc = "failed" =>
          /\ exit.tag = "Err"
          /\ exit.kind \notin {ErrorMessage, MissingMessage}
          /\ stderr = << >>
    /\ report_file.state = "partial" => pc = "failed"

C13_Witness ==
    /\ pc = "done"
    /\ exit.tag = "Err"
    /\ exit.kind = MissingMessage
    /\ report_file.state = "complete"
    /\ report_file.json.totals.dependencies.missing > 0

TotalsComputed == pc \in {"totals", "errors", "written", "failed", "summarized", "done"}

\* C16: the dependency totals of a report add up: total = found + missing +
\* error = system + package + unknown = the number of (ELF, name) results,
\* for packages without ELFs, with one ELF and with several, and for every
\* split of the parallel fold.
C16_TotalsAddUp ==
    TotalsComputed =>
        LET t == totals.dependencies IN
        /\ t.total = t.found + t.missing + t.error
        /\ t.total = t.system + t.package + t.unknown
        /\ t.total = Cardinality(Results)

C16_Witness ==
    /\ pc = "totals"
    /\ Cardinality(DOMAIN dependencies) >= 2
    /\ \A p \in DOMAIN dependencies : DOMAIN dependencies[p] # {}
    /\ totals.dependencies.total = Cardinality(Results)
    /\ totals.dependencies.total >= 3

\* The RPATH/RUNPATH list the resolver uses for an ELF, normalized entry by
\* entry, the entries that normalize to nothing left out.
NormalizedList(p) ==
    LET e == files[p].elf
        chosen == IF e.runpath # << >> THEN e.runpath ELSE e.rpath
        each == [i \in DOMAIN chosen |-> normalize_path(OriginOf(p), chosen[i])]
        kept == SelectSeq(each, LAMBDA o : o # None)
    IN [i \in DOMAIN kept |-> kept[i][1]]

\* C20: the searched_paths of every result that is not short-circuited is the
\* whole normalized list of the chosen RPATH/RUNPATH, in declaration order and
\* with its duplicates, for Found, Error and Missing results alike and
\* wherever the search stopped.
C20_SearchedPathsFull ==
    \A p \in DOMAIN dependencies : \A d \in DOMAIN dependencies[p] :
        d \notin system_dependencies =>
            dependencies[p][d].searched_paths = NormalizedList(p)

C20_Witness ==
    \E p \in DOMAIN dependencies : \E d \in DOMAIN dependencies[p] :
        LET r == dependencies[p][d] IN
        /\ d \notin system_dependencies
        /\ r.status.tag # "Missing"
        /\ r.path # None
        /\ Len(r.searched_paths) = 3
        /\ r.path[1] = join(r.searched_paths[1], d)
        /\ r.searched_paths[1] = r.searched_paths[3]
        /\ r.searched_paths[2] # r.searched_paths[1]


----------------------------------------------------------------------------
(* Properties of package construction. *)

Returned == pc \in {"close", "returned"}

\* C14: when an extraction does not finish within the timeout, every
\* subprocess spawned for it (dpkg-deb; rpm2cpio and cpio) has terminated and
\* has been waited for by the time CommandTimeout is returned.
C14_TimeoutReapsAll ==
    (Returned /\ package_result.error = "CommandTimeout") =>
        \A child \in DOMAIN procs :
            procs[child].state = "terminated" /\ procs[child].reaped

\* C15: a Package is returned only if every extraction subprocess exited
\* with status 0 in time and the tree holds a file or a symlink; a subprocess
\* that exits non-zero, is ended by a signal or times out, an extension other
\* than deb or rpm, or an empty extraction gives a PackageError and no Package.
C15_PackageOnlyOnSuccess ==
    Returned =>
        /\ package_result.tag \in {"Ok", "Err"}
        /\ package_result.tag = "Ok" =>
              /\ extension(archive.path) \in {Some(Str_deb), Some(Str_rpm)}
              /\ DOMAIN procs # {}
              /\ \A child \in DOMAIN procs :
                    procs[child] = Reaped("0")
              /\ archive.tree # None
              /\ \E path \in DOMAIN archive.tree[1] :
                    archive.tree[1][path].type # "dir"
              /\ DOMAIN package_result.value # {}
        /\ package_result.tag = "Err" =>
              /\ package_result.value = << >>
              /\ pc = "returned" => files = << >>

\* The entries of the walked tree the ELF Reader is invoked for, and the
\* ones it fails on with an error other than NotElfFile and FileTooSmall.
ReadEntries ==
    {path \in DOMAIN archive.tree[1] :
        /\ archive.tree[1][path].type = "file"
        /\ ~is_invalid_extension(path)}

ReaderReports(path) == elf_from_path(archive.tree[1][path].image)

FatalEntries ==
    {path \in ReadEntries :
        ReaderReports(path).tag \notin {"Ok", "NotElfFile", "FileTooSmall"}}

\* C18: an entry the ELF Reader reports NotElfFile or FileTooSmall for is
\* recorded as a regular file, an entry it returns a record for as that ELF,
\* and any other error of the reader on any entry leaves no Package and no
\* file map at all.
C18_ReaderErrorsAbort ==
    (Returned /\ archive.tree # None) =>
        /\ FatalEntries # {} =>
              /\ package_result.tag = "Err"
              /\ package_result.value = << >>
              /\ pc = "returned" => files = << >>
        /\ package_result.tag = "Ok" =>
              \A path \in ReadEntries :
                 LET recorded == package_result.value[package_path(path)] IN
                 /\ ReaderReports(path).tag \in {"NotElfFile", "FileTooSmall"}
                       => recorded = File
                 /\ ReaderReports(path).tag = "Ok"
                       => recorded = ElfFile(ReaderReports(path).elf)

C18_Witness ==
    /\ pc = "returned"
    /\ archive.tree # None
    /\ package_result = PackageError("ElfError", "InvalidPaths")
    /\ files = << >>
    /\ Cardinality(FatalEntries) = 1
    /\ \E path \in ReadEntries : ReaderReports(path).tag = "Ok"


----------------------------------------------------------------------------
(* Properties of the System Dependency Set. *)

\* The lines of the file by position: from..to is a stretch without "\n"
\* that starts the text or follows a "\n" and ends the text or precedes one.
LineAt(from, to) ==
    /\ from = 1 \/ content[from - 1] = "\n"
    /\ to = Len(content) \/ content[to + 1] = "\n"
    /\ \A i \in from..to : content[i] # "\n"

\* The stretch without the blanks at its two ends.
Trimmed(from, to) ==
    LET inked == {i \in from..to : content[i] \notin {" ", "\t", "\r", "\n"}} IN
    IF inked = {} THEN << >>
    ELSE SubSeq(content, CHOOSE i \in inked : \A j \in inked : i <= j,
                CHOOSE i \in inked : \A j \in inked : j <= i)

\* C17: the set read from the file holds exactly the trimmed lines that are
\* not empty and do not begin with '#'; blank lines and comment lines, also
\* indented ones, add nothing, and no member has a blank at either end.
C17_FromFileTrims ==
    pc = "loaded" =>
        /\ system_dependencies =
              {Trimmed(r[1], r[2]) :
                  r \in {r \in (1..(Len(content) + 1)) \X (0..Len(content)) :
                            /\ r[1] <= r[2] + 1
                            /\ LineAt(r[1], r[2])
                            /\ Trimmed(r[1], r[2]) # << >>
                            /\ Trimmed(r[1], r[2])[1] # "#"}}
        /\ \A name \in system_dependencies :
              /\ name # << >>
              /\ name[1] \notin {" ", "\t", "\r", "\n", "#"}
              /\ name[Len(name)] \notin {" ", "\t", "\r", "\n"}

C17_Witness ==
    /\ pc = "loaded"
    /\ content = <<" ", "#", "\n", "x">> \/ content = <<"\t", "x", " ", "\n">>
    /\ system_dependencies = {Name_x}

----------------------------------------------------------------------------
(* Properties of the console summary. *)

\* The ELFs listed in the table of missing dependencies, in the order of rows.
MissingElfs ==
    SelectSeq(btree_keys(DOMAIN dependencies),
              LAMBDA p : \E d \in DOMAIN dependencies[p] :
                            dependencies[p][d].status.tag = "Missing")

\* C30: in the table of missing dependencies the common prefix is a
\* component-wise prefix of every listed ELF path and a proper prefix of each,
\* so every row displays a non-empty path and distinct rows display distinct
\* paths, also when a single ELF is listed.
C30_ProperCommonPrefix ==
    (pc \in {"summarized", "done"} /\ stdout # NoTable) =>
        LET prefix == find_common_prefix(MissingElfs)
            rows == stdout[1]
        IN /\ prefix # None
           /\ Len(rows) = Len(MissingElfs)
           /\ \A i \in DOMAIN MissingElfs :
                 LET cs == components(MissingElfs[i])
                     bs == components(prefix[1])
                 IN /\ Len(bs) < Len(cs)
                    /\ SubSeq(cs, 1, Len(bs)) = bs
           /\ \A i \in DOMAIN rows : rows[i].path_str # << >>
           /\ \A i, j \in DOMAIN rows :
                 i # j => rows[i].path_str # rows[j].path_str

----------------------------------------------------------------------------
(* Properties of the lookup of one candidate. *)

\* The candidate of the ELF at p for the name d in its i-th search directory.
Candidate(p, d, i) == join(SearchPathsOf(p)[i], d)

\* The candidate that decided the result for the name d of the ELF at p.
Decider(p, d) == Candidate(p, d, First(Deciding(ProbesOf(p, d))))

CycleMessage == "Symlink cycle detected: "
NotElfMessage == "Found in package, but not an ELF file: "

\* C21: a result with status Error is either the cycle error, naming the
\* candidate, with kind Unknown and no path, the candidate being a symlink
\* whose chain revisits a symlink; or the not-an-ELF error, naming t, with kind
\* Package and path t, where t is a key of files that is no ELF and is the
\* candidate itself or the end of the chain of the candidate symlink.
C21_ErrorShapes ==
    \A p \in DOMAIN dependencies : \A d \in DOMAIN dependencies[p] :
        LET r == dependencies[p][d] IN
        r.status.tag = "Error" =>
            /\ Deciding(ProbesOf(p, d)) # {}
            /\ LET c == Decider(p, d) IN
               \/ /\ r.status = StatusError(CycleMessage, c)
                  /\ r.kind = "Unknown"
                  /\ r.path = None
                  /\ c \in DOMAIN Links
                  /\ Revisits(c)
               \/ \E t \in DOMAIN files :
                     /\ files[t].type # "Elf"
                     /\ r.status = StatusError(NotElfMessage, t)
                     /\ r.kind = "Package"
                     /\ r.path = Some(t)
                     /\ \/ t = c /\ c \notin DOMAIN Links
                        \/ c \in DOMAIN Links /\ ~Revisits(c) /\ EndOf(c) = t

\* The not-an-ELF error reached through a symlink: the path named is the
\* target, not the candidate.
C21_Witness ==
    \E p \in DOMAIN dependencies : \E d \in DOMAIN dependencies[p] :
        /\ dependencies[p][d].status.tag = "Error"
        /\ dependencies[p][d].kind = "Package"
        /\ Decider(p, d) \in DOMAIN Links
        /\ dependencies[p][d].path # Some(Decider(p, d))

\* C22: when the first candidate that is not skipped before it is a symlink
\* whose chain ends at the path t outside the package, the result is Found /
\* System with path t exactly when the basename of t is in the System
\* Dependency Set; otherwise the result is that of the directories after it,
\* Missing when none of them decides, and never an Error of this directory.
C22_OutOfPackageTarget ==
    \A p \in DOMAIN dependencies : \A d \in DOMAIN dependencies[p] :
        d \notin system_dependencies =>
            \A i \in DOMAIN SearchPathsOf(p) :
                LET r == dependencies[p][d]
                    probes == ProbesOf(p, d)
                    c == Candidate(p, d, i)
                    later == {j \in Deciding(probes) : j > i}
                IN (LeavesPackage(c) /\ \A j \in 1..(i - 1) : j \notin Deciding(probes)) =>
                      LET t == EndOf(c) IN
                      IF file_name(t) # None /\ file_name(t)[1] \in system_dependencies
                      THEN /\ r.status = StatusFound
                           /\ r.kind = "System"
                           /\ r.path = Some(t)
                      ELSE /\ ~(r.status = StatusFound /\ r.kind = "System"
                                  /\ r.path = Some(t))
                           /\ IF later = {}
                              THEN r.status = StatusMissing /\ r.path = None
                              ELSE /\ r.status = probes[First(later)][1]
                                   /\ r.kind = probes[First(later)][2]
                                   /\ r.path = probes[First(later)][3]

\* A name outside the set found through a symlink to a system library of
\* another name; and, in the same package, nothing to tell the two cases apart
\* but the basename of the target.
C22_Witness ==
    \E p \in DOMAIN dependencies : \E d \in DOMAIN dependencies[p] :
        /\ d \notin system_dependencies
        /\ \E i \in DOMAIN SearchPathsOf(p) :
              /\ LeavesPackage(Candidate(p, d, i))
              /\ file_name(EndOf(Candidate(p, d, i))) # Some(d)
              /\ dependencies[p][d].path = Some(EndOf(Candidate(p, d, i)))
        /\ dependencies[p][d].kind = "System"

\* C29: a Found / Package result carries a path that is a key of the ELF
\* subset and no symlink; a Found / System result that carries a path carries
\* one that is no key of files and whose basename is in the System Dependency
\* Set.
C29_FoundPaths ==
    \A p \in DOMAIN dependencies : \A d \in DOMAIN dependencies[p] :
        LET r == dependencies[p][d] IN
        /\ (r.status.tag = "Found" /\ r.kind = "Package") =>
              /\ r.path # None
              /\ r.path[1] \in DOMAIN files
              /\ files[r.path[1]].type = "Elf"
              /\ r.path[1] \notin DOMAIN Links
        /\ (r.status.tag = "Found" /\ r.kind = "System" /\ r.path # None) =>
              /\ r.path[1] \notin DOMAIN files
              /\ file_name(r.path[1]) # None
              /\ file_name(r.path[1])[1] \in system_dependencies

\* An ELF found through a chain of symlinks.
C29_Witness ==
    \E p \in DOMAIN dependencies : \E d \in DOMAIN dependencies[p] :
        /\ dependencies[p][d].status.tag = "Found"
        /\ dependencies[p][d].kind = "Package"
        /\ Decider(p, d) \in DOMAIN Links
        /\ dependencies[p][d].path # Some(Links[Decider(p, d)])

----------------------------------------------------------------------------
(* Properties of the report as a whole. *)

\* The paths of the package that hold an ELF.
ElfPaths == {p \in DOMAIN files : files[p].type = "Elf"}

\* The keys of a JSON object.
JsonKeys(object) == {object.pairs[i][1] : i \in DOMAIN object.pairs}

\* The sum of f over the set S.
RECURSIVE Sum(_, _)
Sum(f(_), S) ==
    IF S = {} THEN 0
    ELSE LET x == CHOOSE x \in S : TRUE IN f(x) + Sum(f, S \ {x})

\* The number of distinct names the ELF at p needs.
DistinctNeeded(p) == Cardinality(Range(files[p].elf.dependencies))

\* C28: the keys of dependencies are the ELF paths of the package, an ELF
\* that needs nothing having an empty map, and so are the keys of files and
\* of dependencies in the report written; the keys of the map of an ELF are
\* the distinct names of its needed list, and the totals count each once.
C28_KeySets ==
    /\ pc \notin {"new", "symlinks"} =>
          /\ DOMAIN dependencies = ElfPaths
          /\ \A p \in ElfPaths :
                DOMAIN dependencies[p] = Range(files[p].elf.dependencies)
    /\ TotalsComputed =>
          /\ totals.dependencies.total = Sum(DistinctNeeded, ElfPaths)
          /\ totals.elfs.total = Cardinality(ElfPaths)
    /\ report_file.state = "complete" =>
          /\ JsonKeys(report_file.json.dependencies) = ElfPaths
          /\ JsonKeys(report_file.json.files) = ElfPaths
          /\ Len(report_file.json.dependencies.pairs) = Cardinality(ElfPaths)
          /\ Len(report_file.json.files.pairs) = Cardinality(ElfPaths)
          /\ \A i \in DOMAIN report_file.json.dependencies.pairs :
                LET pair == report_file.json.dependencies.pairs[i] IN
                /\ JsonKeys(pair[2]) = Range(files[pair[1]].elf.dependencies)
                /\ Len(pair[2].pairs) = DistinctNeeded(pair[1])

\* A report on an ELF that lists one name twice and an ELF that needs nothing.
C28_Witness ==
    /\ pc = "done"
    /\ report_file.state = "complete"
    /\ \E p, q \in ElfPaths :
          /\ Len(files[p].elf.dependencies) = 2
          /\ DistinctNeeded(p) = 1
          /\ files[q].elf.dependencies = << >>
          /\ dependencies[q] = << >>
    /\ totals.dependencies.total = 1

\* The verdict as a function of the two counts.
Verdict(error, missing) ==
    IF error > 0 THEN ExitErr(ErrorMessage, error)
    ELSE IF missing > 0 THEN ExitErr(MissingMessage, missing)
    ELSE ExitOk

\* C27: the verdict of validate_report is a function of the error and missing
\* counts of the dependency totals alone; the records of the Error Scanner
\* have no part in it, so a report with records passes when both counts are 0.
C27_VerdictFromCounts ==
    pc = "done" =>
        /\ exit = Verdict(totals.dependencies.error, totals.dependencies.missing)
        /\ (totals.dependencies.error = 0 /\ totals.dependencies.missing = 0)
              => exit = ExitOk

\* A report that passes although the package ships a file named like a system
\* library, which an ELF of the package needs.
C27_Witness ==
    /\ pc = "done"
    /\ errors # << >>
    /\ exit = ExitOk
    /\ report_file.state = "complete"
    /\ report_file.json.errors # << >>
    /\ \E p \in DOMAIN dependencies : \E i \in DOMAIN errors :
          errors[i].dependency \in DOMAIN dependencies[p]

\* The names needed by some ELF whose result has one of the statuses.
NamesWith(tags) ==
    {d \in Names : \E p \in DOMAIN dependencies :
        d \in DOMAIN dependencies[p] /\ dependencies[p][d].status.tag \in tags}

Max(a, b) == IF a >= b THEN a ELSE b

\* C26: total_unique is the number of distinct names over all ELFs,
\* found_unique the number of distinct names with a Found result and
\* missing_unique the number with a Missing result, a name Found for one ELF
\* and Missing for another counting in both; so found_unique <= found,
\* missing_unique <= missing and
\* max(found_unique, missing_unique) <= total_unique <= total.
C26_UniqueCounts ==
    TotalsComputed =>
        LET t == totals.dependencies IN
        /\ t.total_unique = Cardinality(NamesWith({"Found", "Missing", "Error"}))
        /\ t.found_unique = Cardinality(NamesWith({"Found"}))
        /\ t.missing_unique = Cardinality(NamesWith({"Missing"}))
        /\ t.found_unique <= t.found
        /\ t.missing_unique <= t.missing
        /\ Max(t.found_unique, t.missing_unique) <= t.total_unique
        /\ t.total_unique <= t.total

\* A name Found for one ELF and Missing for another.
C26_Witness ==
    /\ pc = "totals"
    /\ NamesWith({"Found"}) \cap NamesWith({"Missing"}) # {}
    /\ totals.dependencies.found_unique + totals.dependencies.missing_unique
          > totals.dependencies.total_unique

----------------------------------------------------------------------------
(* Properties of the aggregation. *)

\* C23: Totals is a commutative monoid under + with Totals::default() as the
\* identity: a + b = b + a, (a + b) + c = a + (b + c) and a + default = a, for
\* the values the parallel fold produces.
C23_CommutativeMonoid ==
    pc = "added" =>
        /\ sum.sums[1].ab = sum.sums[1].ba
        /\ sum.sums[1].ab_c = sum.sums[1].a_bc
        /\ sum.sums[1].a_default = sum.a

\* The results with the kind given.
ResultsOfKind(kind) == {r \in Results : dependencies[r[1]][r[2]].kind = kind}

\* The totals of one pass over all results, one after the other.
SequentialPass ==
    [missing |-> Cardinality(ResultsWith("Missing")),
     missing_unique |-> Cardinality(NamesWith({"Missing"})),
     found |-> Cardinality(ResultsWith("Found")),
     found_unique |-> Cardinality(NamesWith({"Found"})),
     error |-> Cardinality(ResultsWith("Error")),
     system |-> Cardinality(ResultsOfKind("System")),
     package |-> Cardinality(ResultsOfKind("Package")),
     unknown |-> Cardinality(ResultsOfKind("Unknown")),
     total |-> Cardinality(Results),
     total_unique |-> Cardinality(NamesWith({"Found", "Missing", "Error"}))]

----------------------------------------------------------------------------
(* Properties of the recursion of the symlink resolver. *)

\* No call is deeper than the number of symlinks of the package plus one.
StepBound ==
    call # None => call[1].depth <= Cardinality(DOMAIN Links) + 1

\* Every symlink of the package has its one resolution, that of
\* resolve_symlinks.
AllResolved ==
    pc = "resolved" =>
        /\ DOMAIN symlinks = DOMAIN Links
        /\ symlinks = resolve_symlinks(files, Links)

\* C25: symlink resolution terminates for every package, cycles and
\* self-references included: no symlink takes more than the number of
\* symlinks plus one recursive steps, and once the resolution has ended every
\* symlink of the package has exactly one resolution.
C25_Terminates ==
    /\ []StepBound
    /\ []AllResolved
    /\ <>(pc = "resolved")

\* The last call on a cycle of two symlinks: the bound is reached.
C25_Witness ==
    /\ call # None
    /\ Cardinality(DOMAIN Links) = 2
    /\ call[1].depth = 3
    /\ call[1].current_path \in call[1].visited
    /\ call[1].current_path = call[1].symlink

====
